---------------------------- MODULE Spec2Model ----------------------------
(***************************************************************************)
(* Model of the Prompty-Veille single-page client (frontend/src/App.js).   *)
(*                                                                         *)
(* Every React component is a record variable holding its useState cells,  *)
(* under the names the source gives them.  Every asynchronous handler is   *)
(* cut at its awaits: the part before the await is one action (it issues   *)
(* the HTTP request and leaves a continuation in `pending`), and the part  *)
(* after the await is one action per outcome of the request (resolved or   *)
(* rejected).  The backend is external: its responses are drawn from small *)
(* catalogues.  `out` holds what the last step emitted (requests, toasts,  *)
(* navigation).                                                            *)
(***************************************************************************)
EXTENDS Integers, Sequences, FiniteSets, Bags, TLC

(***************************************************************************)
(* Bounds of the model.                                                    *)
(***************************************************************************)
\* Asynchronous handler invocations that may be outstanding at once.
MaxPending == 2
\* Longest summaries list the filter/sort specification draws.
MaxSummaries == 3

(***************************************************************************)
(* Values.                                                                 *)
(***************************************************************************)
\* JavaScript null / undefined (an absent optional field).
NullV == "<null>"

\* A text is a sequence of one-character strings, so that split, trim and
\* join act on characters as String.prototype does.
Comma == ","
Space == " "

\* String.prototype.split(","): the pieces between the commas, empty pieces
\* included; a text without a comma is its own single piece.
RECURSIVE SplitFrom(_, _, _)
SplitFrom(s, i, cur) ==
    IF i > Len(s) THEN <<cur>>
    ELSE IF s[i] = Comma THEN <<cur>> \o SplitFrom(s, i + 1, <<>>)
    ELSE SplitFrom(s, i + 1, Append(cur, s[i]))

Split(s) == SplitFrom(s, 1, <<>>)

\* String.prototype.trim(): leading and trailing white space removed.
RECURSIVE TrimLeft(_)
TrimLeft(s) ==
    IF s /= <<>> /\ Head(s) = Space THEN TrimLeft(Tail(s)) ELSE s

RECURSIVE TrimRight(_)
TrimRight(s) ==
    IF s /= <<>> /\ s[Len(s)] = Space
    THEN TrimRight(SubSeq(s, 1, Len(s) - 1)) ELSE s

Trim(s) == TrimRight(TrimLeft(s))

\* Array.prototype.join(", ").
RECURSIVE Join(_)
Join(ts) ==
    IF ts = <<>> THEN <<>>
    ELSE IF Len(ts) = 1 THEN ts[1]
    ELSE ts[1] \o <<Comma, Space>> \o Join(Tail(ts))

\* Array.prototype.map(t => t.trim()).
MapTrim(ts) == [i \in 1..Len(ts) |-> Trim(ts[i])]

\* Array.prototype.includes.
Includes(seq, x) == \E i \in 1..Len(seq) : seq[i] = x

\* Array.prototype.filter(s => s !== x).
RECURSIVE Without(_, _)
Without(seq, x) ==
    IF seq = <<>> THEN <<>>
    ELSE IF Head(seq) = x THEN Without(Tail(seq), x)
    ELSE <<Head(seq)>> \o Without(Tail(seq), x)

(***************************************************************************)
(* Summaries: filtering and sorting (Summaries.filterSummaries).           *)
(***************************************************************************)
\* new Date(created_at) as a number, for the created_at values the backend
\* sends (days since the epoch here; only differences are used).
DateValue(t) ==
    CASE t = "2025-01-01" -> 20089
      [] t = "2025-01-02" -> 20090
      [] t = "2025-01-03" -> 20091

\* Category names, and their rank in the collation String.prototype.localeCompare
\* uses: the empty string first, then letters without regard to case first
\* ("llms" before "Vision", although "V" < "l" as code units).
CategoryNames == {"", "llms", "Vision"}

LocaleRank(c) ==
    CASE c = "" -> 0
      [] c = "llms" -> 1
      [] c = "Vision" -> 2

LocaleCompare(a, b) ==
    IF LocaleRank(a) < LocaleRank(b) THEN -1
    ELSE IF LocaleRank(a) > LocaleRank(b) THEN 1 ELSE 0

\* x || "".
OrEmpty(c) == IF c = NullV THEN "" ELSE c

\* The comparator handed to sort in the category view.
CompareCategory(a, b) ==
    IF a.category = b.category
    THEN DateValue(b.created_at) - DateValue(a.created_at)
    ELSE LocaleCompare(OrEmpty(a.category), OrEmpty(b.category))

\* The comparator with its operands swapped.
CompareChronological_Ascending(a, b) ==
    DateValue(a.created_at) - DateValue(b.created_at)

\* The comparator handed to sort in the chronological view.
CompareChronological(a, b) ==
    DateValue(b.created_at) - DateValue(a.created_at)

Compare(view, a, b) ==
    IF view = "category" THEN CompareCategory(a, b)
    ELSE CompareChronological(a, b)

\* Array.prototype.sort as the engine runs it on a short array (fewer than 64
\* elements): the leading run is counted (and reversed when strictly
\* descending), then every later element is placed by binary insertion.
RECURSIVE RunEnd(_, _, _, _)
RunEnd(view, a, idx, desc) ==
    IF idx > Len(a) THEN idx - 1
    ELSE LET order == Compare(view, a[idx], a[idx - 1])
         IN  IF (desc /\ order >= 0) \/ (~desc /\ order < 0) THEN idx - 1
             ELSE RunEnd(view, a, idx + 1, desc)

ReverseRange(a, n) ==
    [i \in 1..Len(a) |-> IF i <= n THEN a[n + 1 - i] ELSE a[i]]

RECURSIVE SearchPos(_, _, _, _, _)
SearchPos(view, a, pivot, left, right) ==
    IF left >= right THEN left
    ELSE LET mid == left + ((right - left) \div 2)
         IN  IF Compare(view, pivot, a[mid]) < 0
             THEN SearchPos(view, a, pivot, left, mid)
             ELSE SearchPos(view, a, pivot, mid + 1, right)

InsertAt(a, start, left) ==
    [p \in 1..Len(a) |->
        IF p < left \/ p > start THEN a[p]
        ELSE IF p = left THEN a[start]
        ELSE a[p - 1]]

RECURSIVE BinaryInsertionSort(_, _, _)
BinaryInsertionSort(view, a, start) ==
    IF start > Len(a) THEN a
    ELSE BinaryInsertionSort(view,
             InsertAt(a, start, SearchPos(view, a, a[start], 1, start)),
             start + 1)

Sort(view, a) ==
    IF Len(a) < 2 THEN a
    ELSE LET desc == Compare(view, a[2], a[1]) < 0
             run  == RunEnd(view, a, 3, desc)
             made == IF desc THEN ReverseRange(a, run) ELSE a
         IN  BinaryInsertionSort(view, made, run + 1)

\* Array.prototype.filter with the category predicate.
RECURSIVE FilterCategory(_, _)
FilterCategory(list, selectedCategory) ==
    IF list = <<>> THEN <<>>
    ELSE (IF Head(list).category = selectedCategory THEN <<Head(list)>> ELSE <<>>)
         \o FilterCategory(Tail(list), selectedCategory)

\* Array.prototype.filter with the tag predicate (s.tags && s.tags.includes;
\* the backend always sends a list of tags, and an empty list is truthy).
RECURSIVE FilterTag(_, _)
FilterTag(list, selectedTag) ==
    IF list = <<>> THEN <<>>
    ELSE (IF Includes(Head(list).tags, selectedTag)
          THEN <<Head(list)>> ELSE <<>>)
         \o FilterTag(Tail(list), selectedTag)

\* A filter that forgot the tag.
filterSummaries_CategoryOnly(summaries, selectedCategory, selectedTag, view) ==
    LET byCategory == IF selectedCategory /= "all"
                      THEN FilterCategory(summaries, selectedCategory)
                      ELSE summaries
    IN  Sort(view, byCategory)

\* The value filterSummaries hands to setFilteredSummaries.
filterSummaries(summaries, selectedCategory, selectedTag, view) ==
    LET byCategory == IF selectedCategory /= "all"
                      THEN FilterCategory(summaries, selectedCategory)
                      ELSE summaries
        byTag      == IF selectedTag /= "all"
                      THEN FilterTag(byCategory, selectedTag)
                      ELSE byCategory
    IN  Sort(view, byTag)

\* toggleSummarySelection that never unchecks.
toggleSummarySelection_AlwaysAppend(prev, id) == Append(prev, id)

\* A toggle that put a newly checked id first.
toggleSummarySelection_Prepend(prev, id) ==
    IF Includes(prev, id) THEN Without(prev, id) ELSE <<id>> \o prev

\* prev.includes(id) ? prev.filter(s => s !== id) : [...prev, id].
toggleSummarySelection(prev, id) ==
    IF Includes(prev, id) THEN Without(prev, id) ELSE Append(prev, id)

(***************************************************************************)
(* What the backend can answer (the backend is external to the client).    *)
(***************************************************************************)
\* An optional value: <<>> is null (or an absent field), <<x>> is x.
None == <<>>
Some(x) == <<x>>

Source1 ==
    [id |-> 1, name |-> "Blog", url |-> "https://blog.example",
     category |-> NullV, tags |-> << <<"a">>, <<"b">> >>, active |-> TRUE]
Source1Off == [Source1 EXCEPT !.active = FALSE]
Source2 ==
    [id |-> 2, name |-> "Lab", url |-> "https://lab.example",
     category |-> "llms", tags |-> <<>>, active |-> TRUE]

\* Answers to GET /api/sources.
SourceLists == {<<Source1, Source2>>, <<Source1Off, Source2>>, <<Source2>>}

Summary1 ==
    [id |-> 1, category |-> "llms", tags |-> <<"gpt">>,
     created_at |-> "2025-01-01", source_id |-> Some(1), is_new |-> TRUE]
Summary2 ==
    [id |-> 2, category |-> "Vision", tags |-> <<>>,
     created_at |-> "2025-01-02", source_id |-> None, is_new |-> FALSE]

\* Answers to GET /api/summaries, /api/categories and /api/tags.
SummaryLists == {<<Summary1, Summary2>>, <<Summary2>>}
CategoryLists == {<<"llms", "Vision">>}
TagLists == {<<"gpt">>}

\* Identifiers a detail route can carry, and the items GET /api/summaries/{id}
\* and GET /api/articles/{id} answer with.
DetailIds == {1, 2}
SummaryItem(id, is_new) == [id |-> id, is_new |-> is_new]
ArticleItem(id) == [id |-> id]

\* Answers to GET /api/articles.
ArticleLists == {<<ArticleItem(1), ArticleItem(2)>>, <<ArticleItem(2)>>}

\* Answers to POST /api/process-url.
ResultAnswers == {[title |-> "A"], [title |-> "B"]}

\* What the user can type into the forms.
NameInputs == {"Blog"}
UrlInputs == {"https://blog.example"}
CategoryInputs == {"", "llms"}
TagsInputs == {<<>>, <<"a">>, <<"a", Comma, Comma, "b">>, <<Space, "a", Space>>}
TitleInputs == {"Title"}
ThemeInputs == {"Theme"}
PageUrlInputs == {"https://page.example"}

(***************************************************************************)
(* State.                                                                  *)
(***************************************************************************)
VARIABLES
    route,          \* the mounted view: [view, id] (id is 0 without a route id)
    Dashboard,      \* useState cells of each component instance
    Sources,
    Summaries,
    SummaryDetail,
    SingleUrl,
    Articles,
    ArticleDetail,
    pending,        \* bag of suspended handler invocations (awaiting a request)
    out,            \* what the last step did: [handler, phase, sent, toasts, nav,
                    \* received, prompt]
    openedWith,     \* history: how the source dialog was last opened, and
                    \* whether its form has been submitted since
    checkedOrder,   \* history: ids checked and not unchecked since the last clear
    resultAtSubmit  \* history: the result shown when process-url was submitted

views == <<Dashboard, Sources, Summaries, SummaryDetail, SingleUrl, Articles,
           ArticleDetail>>
history == <<openedWith, checkedOrder, resultAtSubmit>>
vars == <<route, views, pending, out, history>>

\* useState initial values.
EmptyForm == [name |-> "", url |-> "", category |-> "", tags |-> <<>>]
EmptyArticleForm == [title |-> "", theme |-> ""]

InitDashboard == [stats |-> None, recentSummaries |-> <<>>, loading |-> TRUE]
InitSources ==
    [sources |-> <<>>, loading |-> TRUE, dialogOpen |-> FALSE,
     editingSource |-> None, formData |-> EmptyForm]
InitSummaries ==
    [summaries |-> <<>>, filteredSummaries |-> <<>>, loading |-> TRUE,
     categories |-> <<>>, tags |-> <<>>, selectedCategory |-> "all",
     selectedTag |-> "all", view |-> "chronological",
     selectedForArticle |-> <<>>, compilingArticle |-> FALSE,
     showCompileDialog |-> FALSE, articleFormData |-> EmptyArticleForm]
InitSummaryDetail == [summary |-> None, loading |-> TRUE]
InitSingleUrl ==
    [url |-> "", result |-> None, loading |-> FALSE, saveOption |-> FALSE]
InitArticles == [articles |-> <<>>, loading |-> TRUE]
InitArticleDetail == [article |-> None, loading |-> TRUE]

(***************************************************************************)
(* Requests, toasts and suspended invocations.                             *)
(***************************************************************************)
\* An HTTP request as axios sends it; body is <<>> when there is none.
Request(method, path, id, body) ==
    [method |-> method, path |-> path, id |-> id, body |-> body]
Get(path) == Request("GET", path, 0, None)
GetItem(path, id) == Request("GET", path, id, None)

ToastError(text) == [level |-> "error", text |-> text]
ToastSuccess(text) == [level |-> "success", text |-> text]

\* A handler invocation suspended at an await.  live: the component instance
\* that started it is still mounted (the setters of an unmounted instance do
\* nothing).  waiting: requests of the invocation still outstanding.  failed:
\* the invocation has already run its catch block (a Promise.all whose other
\* requests are still outstanding).
Invocation(kind, param, waiting) ==
    [kind |-> kind, live |-> TRUE, param |-> param, waiting |-> waiting,
     failed |-> FALSE]

Items == BagToSet(pending)
NumPending == BagCardinality(pending)
CanIssue == NumPending < MaxPending
Put(item) == pending (+) SetToBag({item})
Take(item) == pending (-) SetToBag({item})
Replace(item, by) == (pending (-) SetToBag({item})) (+) SetToBag({by})

\* The code gives its requests no identity and no order; the model keeps, as
\* `param` of a fetch of a list, the order of issue among the fetches of the
\* mounted instance that are outstanding and not overtaken: 0 for the oldest,
\* 1 for the next, and so on; and a negative `param` once the answer to a
\* fetch the instance issued later has been received (the fetch is
\* overtaken: its answer will be the older list).  An answer that is an
\* error overtakes nothing.  The fetches of an unmounted instance set no
\* state, so no order is kept for them: they are issued with 0 and never
\* renumbered.
Ranked(i, kind) == i.kind = kind /\ i.live /\ ~i.failed /\ i.param >= 0
Rank(kind, live) ==
    IF live THEN Cardinality({i \in Items : Ranked(i, kind)}) ELSE 0
\* The bag `bag` with the fetches of item's kind renumbered after `item`
\* left the order: with `overtakes`, the older ones are overtaken.
Renumbered(item, bag, overtakes) ==
    LET f(i) ==
            IF ~Ranked(i, item.kind) \/ i = item THEN i
            ELSE IF i.param < item.param
                 THEN IF overtakes THEN [i EXCEPT !.param = -1] ELSE i
                 ELSE [i EXCEPT !.param =
                          i.param - (IF overtakes THEN item.param + 1 ELSE 1)]
        img == {f(i) : i \in BagToSet(bag)}
    IN  IF ~Ranked(item, item.kind) THEN bag
        ELSE [m \in img |->
                BagCardinality([i \in {k \in BagToSet(bag) : f(k) = m} |->
                                   CopiesIn(i, bag)])]
\* `item` received its list / `item` received an error.
Overtaking(item, bag) == Renumbered(item, bag, TRUE)
Withdrawn(item, bag) == Renumbered(item, bag, FALSE)

Step(handler, phase, sent, toasts, nav) ==
    [handler |-> handler, phase |-> phase, sent |-> sent, toasts |-> toasts,
     nav |-> nav, received |-> None, prompt |-> None]
\* A step that receives the answer `data` to the GET of a list; late: the
\* mounted instance receives it after the list of a fetch it issued later.
Received(step, item, data) ==
    [step EXCEPT !.received =
        Some([data |-> data, late |-> item.live /\ item.param < 0])]
\* A step that showed the window.confirm prompt about item `id` and got the
\* user's answer.
Prompted(step, id, accepted) ==
    [step EXCEPT !.prompt = Some([id |-> id, accepted |-> accepted])]
NoNav == <<>>
\* A step of the user interface that sends nothing and shows no toast.
Quiet == Step("ui", "call", <<>>, <<>>, NoNav)

(***************************************************************************)
(* Routing: mounting and unmounting the views (App's Routes).              *)
(***************************************************************************)
Route(view, id) == [view |-> view, id |-> id]

\* The requests a view's mount effect sends, and the invocation it suspends.
MountRequests(target) ==
    CASE target.view = "dashboard" -> <<Get("/stats"), Get("/summaries?limit=6")>>
      [] target.view = "sources" -> <<Get("/sources")>>
      [] target.view = "summaries" ->
            <<Get("/summaries"), Get("/categories"), Get("/tags")>>
      [] target.view = "summaryDetail" -> <<GetItem("/summaries/{id}", target.id)>>
      [] target.view = "articles" -> <<Get("/articles")>>
      [] target.view = "articleDetail" -> <<GetItem("/articles/{id}", target.id)>>
      [] OTHER -> <<>>

MountInvocations(target) ==
    CASE target.view = "dashboard" -> {Invocation("fetchDashboardData", 0, 2)}
      [] target.view = "sources" -> {Invocation("fetchSources", 0, 1)}
      [] target.view = "summaries" -> {Invocation("fetchData", 0, 3)}
      [] target.view = "summaryDetail" ->
            {Invocation("fetchSummary", target.id, 1)}
      [] target.view = "articles" -> {Invocation("fetchArticles", 0, 1)}
      [] target.view = "articleDetail" ->
            {Invocation("fetchArticle", target.id, 1)}
      [] OTHER -> {}

\* The invocations of an unmounted instance go on, without their setters.
Orphaned(bag) ==
    LET dead(i) == [i EXCEPT !.live = FALSE]
        olds == {dead(i) : i \in BagToSet(bag)}
    IN  [x \in olds |-> CopiesIn(x, bag) + CopiesIn([x EXCEPT !.live = TRUE], bag)]

\* The state after navigate(target), from the bag `base` of invocations: the
\* same route changes nothing; another id of the same detail view keeps the
\* instance and runs its [id] effect again; another view unmounts the
\* current instance and mounts a fresh one, whose mount effect runs.
RoutedPending(target, base) ==
    IF target = route THEN base
    ELSE IF target.view = route.view
         THEN base (+) SetToBag(MountInvocations(target))
         ELSE Orphaned(base) (+) SetToBag(MountInvocations(target))

RoutedRequests(target) ==
    IF target = route THEN <<>> ELSE MountRequests(target)

\* A view whose state outlived its instance.
RoutedState_Persisted(view, current, initial, target) == current

RoutedState(view, current, initial, target) ==
    IF target.view /= route.view /\ route.view = view THEN initial ELSE current

NoDialogYet == [by |-> "none", id |-> 0, submitted |-> FALSE]

\* navigate(target) applied to every view but `view`, whose next state the
\* calling action gives; histories restart with a fresh instance.
Routed(target, base) ==
    /\ route' = target
    /\ pending' = RoutedPending(target, base)
    /\ Dashboard' = RoutedState("dashboard", Dashboard, InitDashboard, target)
    /\ Sources' = RoutedState("sources", Sources, InitSources, target)
    /\ SingleUrl' = RoutedState("singleUrl", SingleUrl, InitSingleUrl, target)
    /\ Articles' = RoutedState("articles", Articles, InitArticles, target)
    /\ SummaryDetail' =
          RoutedState("summaryDetail", SummaryDetail, InitSummaryDetail, target)
    /\ ArticleDetail' =
          RoutedState("articleDetail", ArticleDetail, InitArticleDetail, target)
    /\ IF target.view /= route.view
       THEN /\ openedWith' = NoDialogYet
            /\ checkedOrder' = <<>>
            /\ resultAtSubmit' = None
       ELSE UNCHANGED history

\* The user moves to another route: a link of the navigation bar, a button
\* that calls navigate, or the browser's history.
Navigate(target) ==
    /\ target /= route
    /\ NumPending + Cardinality(MountInvocations(target)) <= MaxPending
    /\ Summaries' = RoutedState("summaries", Summaries, InitSummaries, target)
    /\ Routed(target, pending)
    /\ out' = Step("Navigation.navigate", "call", RoutedRequests(target), <<>>,
                   <<target>>)

(***************************************************************************)
(* Sources view.                                                           *)
(***************************************************************************)
InSources == route.view = "sources"
\* While loading, the component renders only the loading placeholder.
SourcesRendered == InSources /\ ~Sources.loading
\* The dialog is modal: with it open, only its own controls can be used.
SourcesPage == SourcesRendered /\ ~Sources.dialogOpen
SourceDialog == SourcesRendered /\ Sources.dialogOpen

otherThanSources ==
    <<route, Dashboard, Summaries, SummaryDetail, SingleUrl, Articles,
      ArticleDetail, checkedOrder, resultAtSubmit>>

\* The payload with the pieces of the tags field as they are split.
SourcePayload_NoTrim(formData) ==
    [name |-> formData.name,
     url |-> formData.url,
     category |-> IF formData.category = "" THEN NullV ELSE formData.category,
     tags |-> IF formData.tags /= <<>> THEN Split(formData.tags) ELSE <<>>]

\* The payload handleSubmit builds from the form.
SourcePayload(formData) ==
    [name |-> formData.name,
     url |-> formData.url,
     category |-> IF formData.category = "" THEN NullV ELSE formData.category,
     tags |-> IF formData.tags /= <<>> THEN MapTrim(Split(formData.tags))
              ELSE <<>>]

\* The request handleSubmit sends: PUT when editingSource is set, else POST.
SubmitRequest(editingSource, formData) ==
    IF editingSource /= None
    THEN Request("PUT", "/sources/{id}", editingSource[1].id,
                 Some(SourcePayload(formData)))
    ELSE Request("POST", "/sources", 0, Some(SourcePayload(formData)))

\* fetchSources() up to its await, called by a handler's continuation `item`.
RefetchSources(item) ==
    [Invocation("fetchSources", Rank("fetchSources", item.live), 1)
        EXCEPT !.live = item.live]

\* An Add button that left editingSource as it was.
ClickAddSource_KeepEditing ==
    /\ SourcesPage
    /\ Sources' = [Sources EXCEPT !.formData = EmptyForm,
                                  !.dialogOpen = TRUE]
    /\ openedWith' = [by |-> "add", id |-> 0, submitted |-> FALSE]
    /\ out' = Quiet
    /\ UNCHANGED <<pending, otherThanSources>>

\* The add-source button: its onClick, then the trigger opens the dialog.
ClickAddSource ==
    /\ SourcesPage
    /\ Sources' = [Sources EXCEPT !.editingSource = None,
                                  !.formData = EmptyForm,
                                  !.dialogOpen = TRUE]
    /\ openedWith' = [by |-> "add", id |-> 0, submitted |-> FALSE]
    /\ out' = Quiet
    /\ UNCHANGED <<pending, otherThanSources>>

handleEdit(source) ==
    /\ SourcesPage
    /\ Includes(Sources.sources, source)
    /\ Sources' = [Sources EXCEPT
            !.editingSource = Some(source),
            !.formData = [name |-> source.name,
                          url |-> source.url,
                          category |-> OrEmpty(source.category),
                          tags |-> Join(source.tags)],
            !.dialogOpen = TRUE]
    /\ openedWith' = [by |-> "edit", id |-> source.id, submitted |-> FALSE]
    /\ out' = Quiet
    /\ UNCHANGED <<pending, otherThanSources>>

\* Escape, the close button or a click outside: onOpenChange(false).
CloseSourceDialog ==
    /\ SourceDialog
    /\ Sources' = [Sources EXCEPT !.dialogOpen = FALSE]
    /\ out' = Quiet
    /\ UNCHANGED <<pending, openedWith, otherThanSources>>

\* onChange of one input of the form.
ChangeSourceField(field, value) ==
    /\ SourceDialog
    /\ Sources' = [Sources EXCEPT !.formData[field] = value]
    /\ out' = Quiet
    /\ UNCHANGED <<pending, openedWith, otherThanSources>>

\* handleSubmit up to its await (the name and url inputs are `required`).
handleSubmit ==
    /\ SourceDialog
    /\ Sources.formData.name /= "" /\ Sources.formData.url /= ""
    /\ CanIssue
    /\ pending' = Put(Invocation("saveSource",
                        IF Sources.editingSource /= None THEN 1 ELSE 0, 1))
    /\ out' = Step("Sources.handleSubmit", "call",
                   <<SubmitRequest(Sources.editingSource, Sources.formData)>>,
                   <<>>, NoNav)
    /\ openedWith' = [openedWith EXCEPT !.submitted = TRUE]
    /\ UNCHANGED <<Sources, otherThanSources>>

\* handleSubmit after its await resolved.
handleSubmitResolved(item) ==
    /\ item \in Items /\ item.kind = "saveSource"
    /\ Sources' = IF item.live
                  THEN [Sources EXCEPT !.dialogOpen = FALSE,
                                       !.formData = EmptyForm,
                                       !.editingSource = None]
                  ELSE Sources
    /\ pending' = Replace(item, RefetchSources(item))
    /\ out' = Step("Sources.handleSubmit", "resolved", <<Get("/sources")>>,
                   <<ToastSuccess(IF item.param = 1 THEN "Source mise à jour"
                                  ELSE "Source ajoutée")>>, NoNav)
    /\ UNCHANGED <<openedWith, otherThanSources>>

\* A catch block that also ran the cleanup of the success path.
handleSubmitRejected_Cleanup(item) ==
    /\ item \in Items /\ item.kind = "saveSource"
    /\ pending' = Take(item)
    /\ out' = Step("Sources.handleSubmit", "rejected", <<>>,
                   <<ToastError("Erreur lors de l'enregistrement")>>, NoNav)
    /\ Sources' = IF item.live
                  THEN [Sources EXCEPT !.dialogOpen = FALSE,
                                       !.editingSource = None,
                                       !.formData = EmptyForm]
                  ELSE Sources
    /\ UNCHANGED <<openedWith, otherThanSources>>

\* handleSubmit after its await rejected: the catch block.
handleSubmitRejected(item) ==
    /\ item \in Items /\ item.kind = "saveSource"
    /\ pending' = Take(item)
    /\ out' = Step("Sources.handleSubmit", "rejected", <<>>,
                   <<ToastError("Erreur lors de l'enregistrement")>>, NoNav)
    /\ UNCHANGED <<Sources, openedWith, otherThanSources>>

\* handleDelete sending its request whatever the answer to the prompt.
handleDelete_Unconfirmed(id, confirmed) ==
    /\ SourcesPage
    /\ \E i \in 1..Len(Sources.sources) : Sources.sources[i].id = id
    /\ CanIssue
    /\ pending' = Put(Invocation("deleteSource", 0, 1))
    /\ out' = Prompted(Step("Sources.handleDelete", "call",
                            <<Request("DELETE", "/sources/{id}", id, None)>>,
                            <<>>, NoNav),
                       id, confirmed)
    /\ UNCHANGED <<Sources, openedWith, otherThanSources>>

\* handleDelete up to its await; window.confirm answers `confirmed`.
handleDelete(id, confirmed) ==
    /\ SourcesPage
    /\ \E i \in 1..Len(Sources.sources) : Sources.sources[i].id = id
    /\ IF confirmed
       THEN /\ CanIssue
            /\ pending' = Put(Invocation("deleteSource", 0, 1))
            /\ out' = Prompted(Step("Sources.handleDelete", "call",
                                    <<Request("DELETE", "/sources/{id}", id, None)>>,
                                    <<>>, NoNav),
                               id, TRUE)
       ELSE /\ pending' = pending
            /\ out' = Prompted(Step("Sources.handleDelete", "declined", <<>>,
                                    <<>>, NoNav),
                               id, FALSE)
    /\ UNCHANGED <<Sources, openedWith, otherThanSources>>

handleDeleteResolved(item) ==
    /\ item \in Items /\ item.kind = "deleteSource"
    /\ pending' = Replace(item, RefetchSources(item))
    /\ out' = Step("Sources.handleDelete", "resolved", <<Get("/sources")>>,
                   <<ToastSuccess("Source supprimée")>>, NoNav)
    /\ UNCHANGED <<Sources, openedWith, otherThanSources>>

handleDeleteRejected(item) ==
    /\ item \in Items /\ item.kind = "deleteSource"
    /\ pending' = Take(item)
    /\ out' = Step("Sources.handleDelete", "rejected", <<>>,
                   <<ToastError("Erreur lors de la suppression")>>, NoNav)
    /\ UNCHANGED <<Sources, openedWith, otherThanSources>>

\* handleToggle up to its await.
handleToggle(id) ==
    /\ SourcesPage
    /\ \E i \in 1..Len(Sources.sources) : Sources.sources[i].id = id
    /\ CanIssue
    /\ pending' = Put(Invocation("toggleSource", 0, 1))
    /\ out' = Step("Sources.handleToggle", "call",
                   <<Request("POST", "/sources/{id}/toggle", id, None)>>,
                   <<>>, NoNav)
    /\ UNCHANGED <<Sources, openedWith, otherThanSources>>

\* A toggle whose success did not refetch the list.
handleToggleResolved_NoRefetch(item) ==
    /\ item \in Items /\ item.kind = "toggleSource"
    /\ pending' = Take(item)
    /\ out' = Step("Sources.handleToggle", "resolved", <<>>,
                   <<ToastSuccess("Statut mis à jour")>>, NoNav)
    /\ UNCHANGED <<Sources, openedWith, otherThanSources>>

handleToggleResolved(item) ==
    /\ item \in Items /\ item.kind = "toggleSource"
    /\ pending' = Replace(item, RefetchSources(item))
    /\ out' = Step("Sources.handleToggle", "resolved", <<Get("/sources")>>,
                   <<ToastSuccess("Statut mis à jour")>>, NoNav)
    /\ UNCHANGED <<Sources, openedWith, otherThanSources>>

handleToggleRejected(item) ==
    /\ item \in Items /\ item.kind = "toggleSource"
    /\ pending' = Take(item)
    /\ out' = Step("Sources.handleToggle", "rejected", <<>>,
                   <<ToastError("Erreur lors de la mise à jour")>>, NoNav)
    /\ UNCHANGED <<Sources, openedWith, otherThanSources>>

\* A fetchSources that drops the answer to a request once a request issued
\* later has been answered.
fetchSourcesResolved_LatestOnly(item, data) ==
    /\ item \in Items /\ item.kind = "fetchSources"
    /\ Sources' = IF ~item.live THEN Sources
                  ELSE IF item.param < 0
                       THEN [Sources EXCEPT !.loading = FALSE]
                       ELSE [Sources EXCEPT !.sources = data,
                                            !.loading = FALSE]
    /\ pending' = Overtaking(item, Take(item))
    /\ out' = Received(Step("Sources.fetchSources", "resolved", <<>>, <<>>,
                            NoNav), item, data)
    /\ UNCHANGED <<openedWith, otherThanSources>>

\* fetchSources after its await resolved with `data`, then the finally block.
fetchSourcesResolved(item, data) ==
    /\ item \in Items /\ item.kind = "fetchSources"
    /\ Sources' = IF item.live
                  THEN [Sources EXCEPT !.sources = data, !.loading = FALSE]
                  ELSE Sources
    /\ pending' = Overtaking(item, Take(item))
    /\ out' = Received(Step("Sources.fetchSources", "resolved", <<>>, <<>>,
                            NoNav), item, data)
    /\ UNCHANGED <<openedWith, otherThanSources>>

\* A fetchSources whose setLoading(false) sat at the end of try.
fetchSourcesRejected_NoFinally(item) ==
    /\ item \in Items /\ item.kind = "fetchSources"
    /\ pending' = Withdrawn(item, Take(item))
    /\ out' = Step("Sources.fetchSources", "rejected", <<>>,
                   <<ToastError("Erreur lors du chargement des sources")>>,
                   NoNav)
    /\ UNCHANGED <<Sources, openedWith, otherThanSources>>

\* fetchSources after its await rejected: catch, then finally.
fetchSourcesRejected(item) ==
    /\ item \in Items /\ item.kind = "fetchSources"
    /\ Sources' = IF item.live THEN [Sources EXCEPT !.loading = FALSE]
                  ELSE Sources
    /\ pending' = Withdrawn(item, Take(item))
    /\ out' = Step("Sources.fetchSources", "rejected", <<>>,
                   <<ToastError("Erreur lors du chargement des sources")>>,
                   NoNav)
    /\ UNCHANGED <<openedWith, otherThanSources>>

SourcesUser ==
    \/ ClickAddSource
    \/ \E source \in {Source1, Source1Off, Source2} : handleEdit(source)
    \/ CloseSourceDialog
    \/ \E v \in NameInputs : ChangeSourceField("name", v)
    \/ \E v \in UrlInputs : ChangeSourceField("url", v)
    \/ \E v \in CategoryInputs : ChangeSourceField("category", v)
    \/ \E v \in TagsInputs : ChangeSourceField("tags", v)
    \/ handleSubmit
    \/ \E id \in DetailIds, confirmed \in BOOLEAN : handleDelete(id, confirmed)
    \/ \E id \in DetailIds : handleToggle(id)

SourcesAsync ==
    \/ \E item \in Items : handleSubmitResolved(item)
    \/ \E item \in Items : handleSubmitRejected(item)
    \/ \E item \in Items : handleDeleteResolved(item)
    \/ \E item \in Items : handleDeleteRejected(item)
    \/ \E item \in Items : handleToggleResolved(item)
    \/ \E item \in Items : handleToggleRejected(item)
    \/ \E item \in Items, data \in SourceLists : fetchSourcesResolved(item, data)
    \/ \E item \in Items : fetchSourcesRejected(item)

(***************************************************************************)
(* Summaries view.                                                         *)
(***************************************************************************)
InSummaries == route.view = "summaries"
SummariesRendered == InSummaries /\ ~Summaries.loading
SummariesPage == SummariesRendered /\ ~Summaries.showCompileDialog
CompileDialog == SummariesRendered /\ Summaries.showCompileDialog

otherThanSummaries ==
    <<route, Dashboard, Sources, SummaryDetail, SingleUrl, Articles,
      ArticleDetail, openedWith, resultAtSubmit>>

\* The effect on [summaries, selectedCategory, selectedTag, view]: it runs
\* after every render that changed one of them.
Refiltered(S) ==
    [S EXCEPT !.filteredSummaries =
        filterSummaries(S.summaries, S.selectedCategory, S.selectedTag, S.view)]

Displayed(id) ==
    \E i \in 1..Len(Summaries.filteredSummaries) :
        Summaries.filteredSummaries[i].id = id

\* A card that shows the manual badge whatever the source.
CardBadges_ManualAlways(summary) ==
    (IF summary.is_new THEN <<"new-badge">> ELSE <<>>)
    \o (IF summary.source_id /= None THEN <<"auto-badge">> ELSE <<>>)
    \o <<"manual-badge">>

\* The badges of a summary card, in the order they are rendered; isAutomatic
\* is source_id !== null && source_id !== undefined.
isAutomatic(summary) == summary.source_id /= None
CardBadges(summary) ==
    (IF summary.is_new THEN <<"new-badge">> ELSE <<>>)
    \o (IF isAutomatic(summary) THEN <<"auto-badge">> ELSE <<>>)
    \o (IF ~isAutomatic(summary) THEN <<"manual-badge">> ELSE <<>>)

\* The checkbox of a displayed card.
toggleSelection(id) ==
    /\ SummariesPage
    /\ Displayed(id)
    /\ Summaries' = [Summaries EXCEPT !.selectedForArticle =
                        toggleSummarySelection(Summaries.selectedForArticle, id)]
    /\ checkedOrder' = IF Includes(Summaries.selectedForArticle, id)
                       THEN Without(checkedOrder, id)
                       ELSE Append(checkedOrder, id)
    /\ out' = Quiet
    /\ UNCHANGED <<pending, otherThanSummaries>>

\* The clear-selection button, rendered while something is selected.
ClearSelection ==
    /\ SummariesPage
    /\ Len(Summaries.selectedForArticle) > 0
    /\ Summaries' = [Summaries EXCEPT !.selectedForArticle = <<>>]
    /\ checkedOrder' = <<>>
    /\ out' = Quiet
    /\ UNCHANGED <<pending, otherThanSummaries>>

\* The compile button, rendered while something is selected.
OpenCompileDialog ==
    /\ SummariesPage
    /\ Len(Summaries.selectedForArticle) > 0
    /\ Summaries' = [Summaries EXCEPT !.showCompileDialog = TRUE]
    /\ out' = Quiet
    /\ UNCHANGED <<pending, checkedOrder, otherThanSummaries>>

CloseCompileDialog ==
    /\ CompileDialog
    /\ Summaries' = [Summaries EXCEPT !.showCompileDialog = FALSE]
    /\ out' = Quiet
    /\ UNCHANGED <<pending, checkedOrder, otherThanSummaries>>

ChangeArticleField(field, value) ==
    /\ CompileDialog
    /\ Summaries' = [Summaries EXCEPT !.articleFormData[field] = value]
    /\ out' = Quiet
    /\ UNCHANGED <<pending, checkedOrder, otherThanSummaries>>

SelectCategory(c) ==
    /\ SummariesPage
    /\ c = "all" \/ Includes(Summaries.categories, c)
    /\ Summaries' = Refiltered([Summaries EXCEPT !.selectedCategory = c])
    /\ out' = Quiet
    /\ UNCHANGED <<pending, checkedOrder, otherThanSummaries>>

SelectTag(t) ==
    /\ SummariesPage
    /\ t = "all" \/ Includes(Summaries.tags, t)
    /\ Summaries' = Refiltered([Summaries EXCEPT !.selectedTag = t])
    /\ out' = Quiet
    /\ UNCHANGED <<pending, checkedOrder, otherThanSummaries>>

SetView(v) ==
    /\ SummariesPage
    /\ Summaries' = Refiltered([Summaries EXCEPT !.view = v])
    /\ out' = Quiet
    /\ UNCHANGED <<pending, checkedOrder, otherThanSummaries>>

\* The body of POST /api/articles.
CompilePayload(articleFormData, selectedForArticle) ==
    [title |-> articleFormData.title,
     theme |-> articleFormData.theme,
     summary_ids |-> selectedForArticle]

\* A submit that asked for one selected summary only.
handleCompileArticle_AtLeastOne ==
    /\ CompileDialog
    /\ Summaries.articleFormData.title /= ""
    /\ Summaries.articleFormData.theme /= ""
    /\ ~Summaries.compilingArticle
    /\ IF Len(Summaries.selectedForArticle) < 1
       THEN /\ out' = Step("Summaries.handleCompileArticle", "refused", <<>>,
                  <<ToastError("Veuillez sélectionner au moins 2 résumés pour compiler un article")>>,
                  NoNav)
            /\ UNCHANGED <<Summaries, pending>>
       ELSE /\ CanIssue
            /\ Summaries' = [Summaries EXCEPT !.compilingArticle = TRUE]
            /\ pending' = Put(Invocation("compileArticle", 0, 1))
            /\ out' = Step("Summaries.handleCompileArticle", "call",
                  <<Request("POST", "/articles", 0,
                        Some(CompilePayload(Summaries.articleFormData,
                                            Summaries.selectedForArticle)))>>,
                  <<>>, NoNav)
    /\ UNCHANGED <<checkedOrder, otherThanSummaries>>

\* handleCompileArticle up to its await, or to its early return.  The title
\* and theme inputs are `required`; the submit button is disabled while
\* compilingArticle.
handleCompileArticle ==
    /\ CompileDialog
    /\ Summaries.articleFormData.title /= ""
    /\ Summaries.articleFormData.theme /= ""
    /\ ~Summaries.compilingArticle
    /\ IF Len(Summaries.selectedForArticle) < 2
       THEN /\ out' = Step("Summaries.handleCompileArticle", "refused", <<>>,
                  <<ToastError("Veuillez sélectionner au moins 2 résumés pour compiler un article")>>,
                  NoNav)
            /\ UNCHANGED <<Summaries, pending>>
       ELSE /\ CanIssue
            /\ Summaries' = [Summaries EXCEPT !.compilingArticle = TRUE]
            /\ pending' = Put(Invocation("compileArticle", 0, 1))
            /\ out' = Step("Summaries.handleCompileArticle", "call",
                  <<Request("POST", "/articles", 0,
                        Some(CompilePayload(Summaries.articleFormData,
                                            Summaries.selectedForArticle)))>>,
                  <<>>, NoNav)
    /\ UNCHANGED <<checkedOrder, otherThanSummaries>>

\* handleCompileArticle leading to the list of articles after a success.
handleCompileArticleResolved_ToList(item, id) ==
    /\ item \in Items /\ item.kind = "compileArticle"
    /\ LET target == Route("articles", 0)
       IN  /\ Summaries' =
                 RoutedState("summaries", Summaries, InitSummaries, target)
           /\ Routed(target, Take(item))
           /\ out' = [Step("Summaries.handleCompileArticle", "resolved",
                           RoutedRequests(target),
                           <<ToastSuccess("Article compilé avec succès !")>>,
                           <<target>>)
                       EXCEPT !.received =
                                  Some([data |-> [id |-> id], late |-> FALSE])]

\* handleCompileArticle after its await resolved with an article of id `id`:
\* the setters, navigate, then the finally block.
handleCompileArticleResolved(item, id) ==
    /\ item \in Items /\ item.kind = "compileArticle"
    /\ LET target == Route("articleDetail", id)
           after  == IF item.live
                     THEN [Summaries EXCEPT
                              !.showCompileDialog = FALSE,
                              !.articleFormData = EmptyArticleForm,
                              !.selectedForArticle = <<>>,
                              !.compilingArticle = FALSE]
                     ELSE Summaries
       IN  /\ Summaries' = RoutedState("summaries", after, InitSummaries, target)
           /\ Routed(target, Take(item))
           /\ out' = [Step("Summaries.handleCompileArticle", "resolved",
                           RoutedRequests(target),
                           <<ToastSuccess("Article compilé avec succès !")>>,
                           <<target>>)
                       EXCEPT !.received =
                                  Some([data |-> [id |-> id], late |-> FALSE])]

\* A catch block that also ran the cleanup of the success path.
handleCompileArticleRejected_Cleanup(item) ==
    /\ item \in Items /\ item.kind = "compileArticle"
    /\ Summaries' = IF item.live
                    THEN [Summaries EXCEPT
                             !.showCompileDialog = FALSE,
                             !.articleFormData = EmptyArticleForm,
                             !.selectedForArticle = <<>>,
                             !.compilingArticle = FALSE]
                    ELSE Summaries
    /\ pending' = Take(item)
    /\ out' = Step("Summaries.handleCompileArticle", "rejected", <<>>,
              <<ToastError("Erreur lors de la compilation de l'article")>>,
              NoNav)
    /\ UNCHANGED <<checkedOrder, otherThanSummaries>>

\* The POST of handleCompileArticle rejects: catch, then finally.
handleCompileArticleRejected(item) ==
    /\ item \in Items /\ item.kind = "compileArticle"
    /\ Summaries' = IF item.live
                    THEN [Summaries EXCEPT !.compilingArticle = FALSE]
                    ELSE Summaries
    /\ pending' = Take(item)
    /\ out' = Step("Summaries.handleCompileArticle", "rejected", <<>>,
              <<ToastError("Erreur lors de la compilation de l'article")>>,
              NoNav)
    /\ UNCHANGED <<checkedOrder, otherThanSummaries>>

\* fetchData() up to its await, called by a handler's continuation `item`.
RefetchData(item) ==
    [Invocation("fetchData", Rank("fetchData", item.live), 3)
        EXCEPT !.live = item.live]

\* The delete button of a displayed card, up to its await.
deleteSummary(id, confirmed) ==
    /\ SummariesPage
    /\ Displayed(id)
    /\ IF confirmed
       THEN /\ CanIssue
            /\ pending' = Put(Invocation("deleteSummary", 0, 1))
            /\ out' = Prompted(Step("Summaries.deleteSummary", "call",
                                    <<Request("DELETE", "/summaries/{id}", id, None)>>,
                                    <<>>, NoNav),
                               id, TRUE)
       ELSE /\ pending' = pending
            /\ out' = Prompted(Step("Summaries.deleteSummary", "declined", <<>>,
                                    <<>>, NoNav),
                               id, FALSE)
    /\ UNCHANGED <<Summaries, checkedOrder, otherThanSummaries>>

deleteSummaryResolved(item) ==
    /\ item \in Items /\ item.kind = "deleteSummary"
    /\ pending' = Replace(item, RefetchData(item))
    /\ out' = Step("Summaries.deleteSummary", "resolved",
                   <<Get("/summaries"), Get("/categories"), Get("/tags")>>,
                   <<ToastSuccess("Résumé supprimé")>>, NoNav)
    /\ UNCHANGED <<Summaries, checkedOrder, otherThanSummaries>>

deleteSummaryRejected(item) ==
    /\ item \in Items /\ item.kind = "deleteSummary"
    /\ pending' = Take(item)
    /\ out' = Step("Summaries.deleteSummary", "rejected", <<>>,
                   <<ToastError("Erreur lors de la suppression")>>, NoNav)
    /\ UNCHANGED <<Summaries, checkedOrder, otherThanSummaries>>

\* One request of a Promise.all invocation settles: the invocation stays
\* suspended while others are outstanding.
Settled(item, failed) ==
    IF item.waiting > 1
    THEN Replace(item, [item EXCEPT !.waiting = item.waiting - 1,
                                    !.failed = failed])
    ELSE Take(item)

\* A Promise.all whose every rejected request reached the catch block.
fetchDataPartial_ToastEach(item) ==
    /\ item \in Items /\ item.kind = "fetchData"
    /\ item.waiting > 1 \/ item.failed
    /\ pending' = Settled(item, item.failed)
    /\ out' = Step("Summaries.fetchData", "partial", <<>>,
                   IF item.failed
                   THEN <<ToastError("Erreur lors du chargement")>>
                   ELSE <<>>, NoNav)
    /\ UNCHANGED <<Summaries, checkedOrder, otherThanSummaries>>

\* A GET of fetchData resolves and the Promise.all stays pending, or the
\* invocation has failed already.
fetchDataPartial(item) ==
    /\ item \in Items /\ item.kind = "fetchData"
    /\ item.waiting > 1 \/ item.failed
    /\ pending' = Settled(item, item.failed)
    /\ out' = Step("Summaries.fetchData", "partial", <<>>, <<>>, NoNav)
    /\ UNCHANGED <<Summaries, checkedOrder, otherThanSummaries>>

\* The last GET of fetchData resolves: the three setters, then finally.
fetchDataResolved(item, summariesData, categoriesData, tagsData) ==
    /\ item \in Items /\ item.kind = "fetchData"
    /\ item.waiting = 1 /\ ~item.failed
    /\ Summaries' = IF item.live
                    THEN Refiltered([Summaries EXCEPT
                                        !.summaries = summariesData,
                                        !.categories = categoriesData,
                                        !.tags = tagsData,
                                        !.loading = FALSE])
                    ELSE Summaries
    /\ pending' = Overtaking(item, Take(item))
    /\ out' = Received(Step("Summaries.fetchData", "resolved", <<>>, <<>>,
                            NoNav), item, summariesData)
    /\ UNCHANGED <<checkedOrder, otherThanSummaries>>

\* A catch block that kept the summaries of a GET that did succeed.
fetchDataRejected_KeepFulfilled(item) ==
    /\ item \in Items /\ item.kind = "fetchData"
    /\ ~item.failed
    /\ Summaries' = IF item.live
                    THEN Refiltered([Summaries EXCEPT
                                        !.summaries = <<Summary2>>,
                                        !.loading = FALSE])
                    ELSE Summaries
    /\ pending' = Withdrawn(item, Settled(item, TRUE))
    /\ out' = Step("Summaries.fetchData", "rejected", <<>>,
                   <<ToastError("Erreur lors du chargement")>>, NoNav)
    /\ UNCHANGED <<checkedOrder, otherThanSummaries>>

\* The first GET of fetchData to reject: catch, then finally.
fetchDataRejected(item) ==
    /\ item \in Items /\ item.kind = "fetchData"
    /\ ~item.failed
    /\ Summaries' = IF item.live THEN [Summaries EXCEPT !.loading = FALSE]
                    ELSE Summaries
    /\ pending' = Withdrawn(item, Settled(item, TRUE))
    /\ out' = Step("Summaries.fetchData", "rejected", <<>>,
                   <<ToastError("Erreur lors du chargement")>>, NoNav)
    /\ UNCHANGED <<checkedOrder, otherThanSummaries>>

\* The "Lire le résumé complet" button of a displayed card.
ViewSummary(id) ==
    /\ SummariesPage
    /\ Displayed(id)
    /\ Navigate(Route("summaryDetail", id))

\* What the user can do in the Summaries view.
SummariesUser ==
    \/ \E id \in DetailIds : ViewSummary(id)
    \/ \E id \in DetailIds : toggleSelection(id)
    \/ ClearSelection
    \/ OpenCompileDialog
    \/ CloseCompileDialog
    \/ \E v \in TitleInputs : ChangeArticleField("title", v)
    \/ \E v \in ThemeInputs : ChangeArticleField("theme", v)
    \/ \E c \in {"all"} \cup CategoryNames : SelectCategory(c)
    \/ \E t \in {"all", "gpt"} : SelectTag(t)
    \/ \E v \in {"chronological", "category"} : SetView(v)
    \/ handleCompileArticle
    \/ \E id \in DetailIds, confirmed \in BOOLEAN : deleteSummary(id, confirmed)

SummariesAsync ==
    \/ \E item \in Items, id \in DetailIds : handleCompileArticleResolved(item, id)
    \/ \E item \in Items : handleCompileArticleRejected(item)
    \/ \E item \in Items : deleteSummaryResolved(item)
    \/ \E item \in Items : deleteSummaryRejected(item)
    \/ \E item \in Items : fetchDataPartial(item)
    \/ \E item \in Items, sd \in SummaryLists, cd \in CategoryLists, td \in TagLists :
          fetchDataResolved(item, sd, cd, td)
    \/ \E item \in Items : fetchDataRejected(item)

(***************************************************************************)
(* Dashboard view.                                                         *)
(***************************************************************************)
otherThanDashboard ==
    <<route, Sources, Summaries, SummaryDetail, SingleUrl, Articles,
      ArticleDetail, history>>

\* summariesRes.data.slice(0, 6).
RecentLimit == 6
Slice(list, n) == SubSeq(list, 1, IF Len(list) < n THEN Len(list) ELSE n)

fetchDashboardDataPartial(item) ==
    /\ item \in Items /\ item.kind = "fetchDashboardData"
    /\ item.waiting > 1 \/ item.failed
    /\ pending' = Settled(item, item.failed)
    /\ out' = Step("Dashboard.fetchData", "partial", <<>>, <<>>, NoNav)
    /\ UNCHANGED <<Dashboard, otherThanDashboard>>

fetchDashboardDataResolved(item, statsData, summariesData) ==
    /\ item \in Items /\ item.kind = "fetchDashboardData"
    /\ item.waiting = 1 /\ ~item.failed
    /\ Dashboard' = IF item.live
                    THEN [stats |-> Some(statsData),
                          recentSummaries |-> Slice(summariesData, RecentLimit),
                          loading |-> FALSE]
                    ELSE Dashboard
    /\ pending' = Take(item)
    /\ out' = Step("Dashboard.fetchData", "resolved", <<>>, <<>>, NoNav)
    /\ UNCHANGED otherThanDashboard

fetchDashboardDataRejected(item) ==
    /\ item \in Items /\ item.kind = "fetchDashboardData"
    /\ ~item.failed
    /\ Dashboard' = IF item.live THEN [Dashboard EXCEPT !.loading = FALSE]
                    ELSE Dashboard
    /\ pending' = Settled(item, TRUE)
    /\ out' = Step("Dashboard.fetchData", "rejected", <<>>,
                   <<ToastError("Erreur lors du chargement des données")>>,
                   NoNav)
    /\ UNCHANGED otherThanDashboard

DashboardAsync ==
    \/ \E item \in Items : fetchDashboardDataPartial(item)
    \/ \E item \in Items, sd \in SummaryLists,
            st \in {[total_sources |-> 2], [total_sources |-> 1]} :
          fetchDashboardDataResolved(item, st, sd)
    \/ \E item \in Items : fetchDashboardDataRejected(item)

(***************************************************************************)
(* Summary detail view.                                                    *)
(***************************************************************************)
otherThanSummaryDetail ==
    <<route, Dashboard, Sources, Summaries, SingleUrl, Articles, ArticleDetail,
      history>>

\* fetchSummary marking as read every summary it receives.
fetchSummaryResolved_AlwaysMarkRead(item, is_new) ==
    /\ item \in Items /\ item.kind = "fetchSummary"
    /\ LET data == SummaryItem(item.param, is_new)
       IN  /\ SummaryDetail' =
                 IF item.live
                 THEN [SummaryDetail EXCEPT !.summary = Some(data)]
                 ELSE SummaryDetail
           /\ pending' = Replace(item, [item EXCEPT !.kind = "markRead"])
           /\ out' = [Step("SummaryDetail.fetchSummary", "resolved",
                           <<Request("POST", "/summaries/{id}/mark-read",
                                     item.param, None)>>,
                           <<>>, NoNav)
                       EXCEPT !.received =
                                  Some([data |-> data, late |-> FALSE])]
    /\ UNCHANGED otherThanSummaryDetail

\* fetchSummary after its GET resolved with `data`: setSummary, then the
\* mark-read POST (a second await) when the summary is new, else finally.
fetchSummaryResolved(item, is_new) ==
    /\ item \in Items /\ item.kind = "fetchSummary"
    /\ LET data == SummaryItem(item.param, is_new)
       IN  /\ SummaryDetail' =
                 IF item.live
                 THEN [summary |-> Some(data),
                       loading |-> IF is_new THEN SummaryDetail.loading
                                   ELSE FALSE]
                 ELSE SummaryDetail
           /\ pending' = IF is_new
                         THEN Replace(item, [item EXCEPT !.kind = "markRead"])
                         ELSE Take(item)
           /\ out' = [Step("SummaryDetail.fetchSummary", "resolved",
                           IF is_new
                           THEN <<Request("POST", "/summaries/{id}/mark-read",
                                          item.param, None)>>
                           ELSE <<>>,
                           <<>>, NoNav)
                       EXCEPT !.received =
                                  Some([data |-> data, late |-> FALSE])]
    /\ UNCHANGED otherThanSummaryDetail

fetchSummaryRejected(item) ==
    /\ item \in Items /\ item.kind = "fetchSummary"
    /\ SummaryDetail' = IF item.live
                        THEN [SummaryDetail EXCEPT !.loading = FALSE]
                        ELSE SummaryDetail
    /\ pending' = Take(item)
    /\ out' = Step("SummaryDetail.fetchSummary", "rejected", <<>>,
                   <<ToastError("Erreur lors du chargement")>>, NoNav)
    /\ UNCHANGED otherThanSummaryDetail

\* fetchSummary after its mark-read POST resolved: finally.
markReadResolved(item) ==
    /\ item \in Items /\ item.kind = "markRead"
    /\ SummaryDetail' = IF item.live
                        THEN [SummaryDetail EXCEPT !.loading = FALSE]
                        ELSE SummaryDetail
    /\ pending' = Take(item)
    /\ out' = Step("SummaryDetail.markRead", "resolved", <<>>, <<>>, NoNav)
    /\ UNCHANGED otherThanSummaryDetail

\* fetchSummary after its mark-read POST rejected: catch, then finally.
markReadRejected(item) ==
    /\ item \in Items /\ item.kind = "markRead"
    /\ SummaryDetail' = IF item.live
                        THEN [SummaryDetail EXCEPT !.loading = FALSE]
                        ELSE SummaryDetail
    /\ pending' = Take(item)
    /\ out' = Step("SummaryDetail.markRead", "rejected", <<>>,
                   <<ToastError("Erreur lors du chargement")>>, NoNav)
    /\ UNCHANGED otherThanSummaryDetail

SummaryDetailAsync ==
    \/ \E item \in Items, is_new \in BOOLEAN : fetchSummaryResolved(item, is_new)
    \/ \E item \in Items : fetchSummaryRejected(item)
    \/ \E item \in Items : markReadResolved(item)
    \/ \E item \in Items : markReadRejected(item)

(***************************************************************************)
(* Single-URL view.                                                        *)
(***************************************************************************)
InSingleUrl == route.view = "singleUrl"

otherThanSingleUrl ==
    <<route, Dashboard, Sources, Summaries, SummaryDetail, Articles,
      ArticleDetail, openedWith, checkedOrder>>

ChangeUrl(value) ==
    /\ InSingleUrl
    /\ SingleUrl' = [SingleUrl EXCEPT !.url = value]
    /\ out' = Quiet
    /\ UNCHANGED <<pending, resultAtSubmit, otherThanSingleUrl>>

ToggleSaveOption ==
    /\ InSingleUrl
    /\ SingleUrl' = [SingleUrl EXCEPT !.saveOption = ~SingleUrl.saveOption]
    /\ out' = Quiet
    /\ UNCHANGED <<pending, resultAtSubmit, otherThanSingleUrl>>

\* A submit that left the previous result on screen.
handleSubmitUrl_KeepResult ==
    /\ InSingleUrl
    /\ SingleUrl.url /= ""
    /\ ~SingleUrl.loading
    /\ CanIssue
    /\ SingleUrl' = [SingleUrl EXCEPT !.loading = TRUE]
    /\ resultAtSubmit' = SingleUrl.result
    /\ pending' = Put(Invocation("processUrl", 0, 1))
    /\ out' = Step("SingleUrl.handleSubmit", "call",
                   <<Request("POST", "/process-url", 0,
                             Some([url |-> SingleUrl.url,
                                   save |-> SingleUrl.saveOption]))>>,
                   <<>>, NoNav)
    /\ UNCHANGED otherThanSingleUrl

\* A submit whose button was not disabled during the request.
handleSubmitUrl_NotDisabled ==
    /\ InSingleUrl
    /\ SingleUrl.url /= ""
    /\ CanIssue
    /\ SingleUrl' = [SingleUrl EXCEPT !.loading = TRUE, !.result = None]
    /\ resultAtSubmit' = SingleUrl.result
    /\ pending' = Put(Invocation("processUrl", 0, 1))
    /\ out' = Step("SingleUrl.handleSubmit", "call",
                   <<Request("POST", "/process-url", 0,
                             Some([url |-> SingleUrl.url,
                                   save |-> SingleUrl.saveOption]))>>,
                   <<>>, NoNav)
    /\ UNCHANGED otherThanSingleUrl

\* SingleUrl.handleSubmit up to its await (the url input is `required`; the
\* submit button is disabled while loading).
handleSubmitUrl ==
    /\ InSingleUrl
    /\ SingleUrl.url /= ""
    /\ ~SingleUrl.loading
    /\ CanIssue
    /\ SingleUrl' = [SingleUrl EXCEPT !.loading = TRUE, !.result = None]
    /\ resultAtSubmit' = SingleUrl.result
    /\ pending' = Put(Invocation("processUrl", 0, 1))
    /\ out' = Step("SingleUrl.handleSubmit", "call",
                   <<Request("POST", "/process-url", 0,
                             Some([url |-> SingleUrl.url,
                                   save |-> SingleUrl.saveOption]))>>,
                   <<>>, NoNav)
    /\ UNCHANGED otherThanSingleUrl

handleSubmitUrlResolved(item, data) ==
    /\ item \in Items /\ item.kind = "processUrl"
    /\ SingleUrl' = IF item.live
                    THEN [SingleUrl EXCEPT !.result = Some(data),
                                           !.loading = FALSE]
                    ELSE SingleUrl
    /\ pending' = Take(item)
    /\ out' = Step("SingleUrl.handleSubmit", "resolved", <<>>,
                   <<ToastSuccess("Résumé généré avec succès")>>, NoNav)
    /\ UNCHANGED <<resultAtSubmit, otherThanSingleUrl>>

handleSubmitUrlRejected(item) ==
    /\ item \in Items /\ item.kind = "processUrl"
    /\ SingleUrl' = IF item.live THEN [SingleUrl EXCEPT !.loading = FALSE]
                    ELSE SingleUrl
    /\ pending' = Take(item)
    /\ out' = Step("SingleUrl.handleSubmit", "rejected", <<>>,
                   <<ToastError("Erreur lors du traitement de l'URL")>>, NoNav)
    /\ UNCHANGED <<resultAtSubmit, otherThanSingleUrl>>

SingleUrlUser ==
    \/ \E v \in PageUrlInputs : ChangeUrl(v)
    \/ ToggleSaveOption
    \/ handleSubmitUrl

SingleUrlAsync ==
    \/ \E item \in Items, data \in ResultAnswers :
          handleSubmitUrlResolved(item, data)
    \/ \E item \in Items : handleSubmitUrlRejected(item)

(***************************************************************************)
(* Articles view and article detail view.                                  *)
(***************************************************************************)
ArticlesPage == route.view = "articles" /\ ~Articles.loading

otherThanArticles ==
    <<route, Dashboard, Sources, Summaries, SummaryDetail, SingleUrl,
      ArticleDetail, history>>

RefetchArticles(item) ==
    [Invocation("fetchArticles", Rank("fetchArticles", item.live), 1)
        EXCEPT !.live = item.live]

\* The delete button of an article card, up to its await.
deleteArticle(id, confirmed) ==
    /\ ArticlesPage
    /\ \E i \in 1..Len(Articles.articles) : Articles.articles[i].id = id
    /\ IF confirmed
       THEN /\ CanIssue
            /\ pending' = Put(Invocation("deleteArticle", 0, 1))
            /\ out' = Prompted(Step("Articles.deleteArticle", "call",
                                    <<Request("DELETE", "/articles/{id}", id, None)>>,
                                    <<>>, NoNav),
                               id, TRUE)
       ELSE /\ pending' = pending
            /\ out' = Prompted(Step("Articles.deleteArticle", "declined", <<>>,
                                    <<>>, NoNav),
                               id, FALSE)
    /\ UNCHANGED <<Articles, otherThanArticles>>

deleteArticleResolved(item) ==
    /\ item \in Items /\ item.kind = "deleteArticle"
    /\ pending' = Replace(item, RefetchArticles(item))
    /\ out' = Step("Articles.deleteArticle", "resolved", <<Get("/articles")>>,
                   <<ToastSuccess("Article supprimé")>>, NoNav)
    /\ UNCHANGED <<Articles, otherThanArticles>>

deleteArticleRejected(item) ==
    /\ item \in Items /\ item.kind = "deleteArticle"
    /\ pending' = Take(item)
    /\ out' = Step("Articles.deleteArticle", "rejected", <<>>,
                   <<ToastError("Erreur lors de la suppression")>>, NoNav)
    /\ UNCHANGED <<Articles, otherThanArticles>>

fetchArticlesResolved(item, data) ==
    /\ item \in Items /\ item.kind = "fetchArticles"
    /\ Articles' = IF item.live THEN [articles |-> data, loading |-> FALSE]
                   ELSE Articles
    /\ pending' = Overtaking(item, Take(item))
    /\ out' = Received(Step("Articles.fetchData", "resolved", <<>>, <<>>,
                            NoNav), item, data)
    /\ UNCHANGED otherThanArticles

fetchArticlesRejected(item) ==
    /\ item \in Items /\ item.kind = "fetchArticles"
    /\ Articles' = IF item.live THEN [Articles EXCEPT !.loading = FALSE]
                   ELSE Articles
    /\ pending' = Withdrawn(item, Take(item))
    /\ out' = Step("Articles.fetchData", "rejected", <<>>,
                   <<ToastError("Erreur lors du chargement")>>, NoNav)
    /\ UNCHANGED otherThanArticles

otherThanArticleDetail ==
    <<route, Dashboard, Sources, Summaries, SummaryDetail, SingleUrl, Articles,
      history>>

fetchArticleResolved(item) ==
    /\ item \in Items /\ item.kind = "fetchArticle"
    /\ ArticleDetail' = IF item.live
                        THEN [article |-> Some(ArticleItem(item.param)),
                              loading |-> FALSE]
                        ELSE ArticleDetail
    /\ pending' = Take(item)
    /\ out' = Step("ArticleDetail.fetchArticle", "resolved", <<>>, <<>>, NoNav)
    /\ UNCHANGED otherThanArticleDetail

fetchArticleRejected(item) ==
    /\ item \in Items /\ item.kind = "fetchArticle"
    /\ ArticleDetail' = IF item.live
                        THEN [ArticleDetail EXCEPT !.loading = FALSE]
                        ELSE ArticleDetail
    /\ pending' = Take(item)
    /\ out' = Step("ArticleDetail.fetchArticle", "rejected", <<>>,
                   <<ToastError("Erreur lors du chargement")>>, NoNav)
    /\ UNCHANGED otherThanArticleDetail

ArticlesUser ==
    \E id \in DetailIds, confirmed \in BOOLEAN : deleteArticle(id, confirmed)

ArticlesAsync ==
    \/ \E item \in Items : deleteArticleResolved(item)
    \/ \E item \in Items : deleteArticleRejected(item)
    \/ \E item \in Items, data \in ArticleLists : fetchArticlesResolved(item, data)
    \/ \E item \in Items : fetchArticlesRejected(item)
    \/ \E item \in Items : fetchArticleResolved(item)
    \/ \E item \in Items : fetchArticleRejected(item)

(***************************************************************************)
(* Navigation, and the specifications.                                     *)
(***************************************************************************)
Routes ==
    {Route(v, 0) : v \in {"dashboard", "sources", "summaries", "singleUrl",
                          "articles"}}
    \cup {Route(v, id) : v \in {"summaryDetail", "articleDetail"},
                         id \in DetailIds}

\* The application loaded at `start`: every component at its useState
\* values, the mounted view's mount effect suspended at its await.
InitAt(start) ==
    /\ route = start
    /\ Dashboard = InitDashboard
    /\ Sources = InitSources
    /\ Summaries = InitSummaries
    /\ SummaryDetail = InitSummaryDetail
    /\ SingleUrl = InitSingleUrl
    /\ Articles = InitArticles
    /\ ArticleDetail = InitArticleDetail
    /\ pending = SetToBag(MountInvocations(start))
    /\ out = Step("App.mount", "call", MountRequests(start), <<>>, NoNav)
    /\ openedWith = NoDialogYet
    /\ checkedOrder = <<>>
    /\ resultAtSubmit = None

Init == \E start \in Routes : InitAt(start)

Async ==
    \/ SourcesAsync
    \/ SummariesAsync
    \/ DashboardAsync
    \/ SummaryDetailAsync
    \/ SingleUrlAsync
    \/ ArticlesAsync

\* The whole application, loaded at any route: the controls of the mounted
\* view, the navigation (the bar App renders on every route, the buttons
\* that call navigate, the browser's history), and the settling requests.
Next ==
    \/ \E target \in Routes : Navigate(target)
    \/ SourcesUser
    \/ SummariesUser
    \/ SingleUrlUser
    \/ ArticlesUser
    \/ Async

Spec == Init /\ [][Next]_vars

\* The Sources view alone.
NextSources == SourcesUser \/ SourcesAsync
SpecSources == InitAt(Route("sources", 0)) /\ [][NextSources]_vars

\* The Summaries view alone.
NextSummaries == SummariesUser \/ SummariesAsync
SpecSummaries == InitAt(Route("summaries", 0)) /\ [][NextSummaries]_vars

\* filterSummaries on every short list: the Summaries view right after its
\* mount fetch resolved with any list of at most MaxSummaries summaries (ids
\* by position), every category and the tag on offer, then only the
\* selectors and the view tabs are used.
FilterShapes ==
    [category : {NullV, "", "llms", "Vision"},
     created_at : {"2025-01-01", "2025-01-02"},
     tags : {<<>>, <<"gpt">>}]
FilterLists(max) ==
    UNION {{[i \in 1..n |->
                [id |-> i, category |-> f[i].category, tags |-> f[i].tags,
                 created_at |-> f[i].created_at, source_id |-> None,
                 is_new |-> FALSE]] :
            f \in [1..n -> FilterShapes]} : n \in 0..max}

InitFilter ==
    \E list \in FilterLists(MaxSummaries) :
        /\ route = Route("summaries", 0)
        /\ Dashboard = InitDashboard
        /\ Sources = InitSources
        /\ Summaries = Refiltered([InitSummaries EXCEPT
                            !.summaries = list,
                            !.categories = <<"", "llms", "Vision">>,
                            !.tags = <<"gpt">>,
                            !.loading = FALSE])
        /\ SummaryDetail = InitSummaryDetail
        /\ SingleUrl = InitSingleUrl
        /\ Articles = InitArticles
        /\ ArticleDetail = InitArticleDetail
        /\ pending = EmptyBag
        /\ out = [Step("Summaries.fetchData", "resolved", <<>>, <<>>, NoNav)
                  EXCEPT !.received = Some([data |-> list, late |-> FALSE])]
        /\ openedWith = NoDialogYet
        /\ checkedOrder = <<>>
        /\ resultAtSubmit = None

NextFilter ==
    \/ \E c \in {"all"} \cup CategoryNames : SelectCategory(c)
    \/ \E t \in {"all", "gpt"} : SelectTag(t)
    \/ \E v \in {"chronological", "category"} : SetView(v)

SpecFilter == InitFilter /\ [][NextFilter]_vars

\* The views that load several resources in one round, the backend answering
\* each round with resources that belong together.
FetchRounds ==
    {[summaries |-> <<Summary1, Summary2>>, categories |-> <<"llms", "Vision">>,
      tags |-> <<"gpt">>, stats |-> [total_sources |-> 2]],
     [summaries |-> <<Summary2>>, categories |-> <<"Vision">>,
      tags |-> <<>>, stats |-> [total_sources |-> 1]]}

NextRounds ==
    \/ \E id \in DetailIds : toggleSelection(id)
    \/ \E c \in {"all", "llms"} : SelectCategory(c)
    \/ \E v \in {"chronological", "category"} : SetView(v)
    \/ \E id \in DetailIds, confirmed \in BOOLEAN : deleteSummary(id, confirmed)
    \/ \E item \in Items : deleteSummaryResolved(item)
    \/ \E item \in Items : deleteSummaryRejected(item)
    \/ \E item \in Items : fetchDataPartial(item)
    \/ \E item \in Items, r \in FetchRounds :
          fetchDataResolved(item, r.summaries, r.categories, r.tags)
    \/ \E item \in Items : fetchDataRejected(item)
    \/ \E item \in Items : fetchDashboardDataPartial(item)
    \/ \E item \in Items, r \in FetchRounds :
          fetchDashboardDataResolved(item, r.stats, r.summaries)
    \/ \E item \in Items : fetchDashboardDataRejected(item)

SpecRounds ==
    /\ \E start \in {Route("dashboard", 0), Route("summaries", 0)} : InitAt(start)
    /\ [][NextRounds]_vars

\* Mounting and refetching: the application loaded at any route, the
\* mutations that refetch a list, and the settling of the requests; every
\* request settles in the end.
Settle ==
    \/ \E item \in Items : handleDeleteResolved(item)
    \/ \E item \in Items : handleDeleteRejected(item)
    \/ \E item \in Items : handleToggleResolved(item)
    \/ \E item \in Items : handleToggleRejected(item)
    \/ \E item \in Items, data \in SourceLists : fetchSourcesResolved(item, data)
    \/ \E item \in Items : fetchSourcesRejected(item)
    \/ \E item \in Items : deleteSummaryResolved(item)
    \/ \E item \in Items : deleteSummaryRejected(item)
    \/ \E item \in Items : fetchDataPartial(item)
    \/ \E item \in Items, r \in FetchRounds :
          fetchDataResolved(item, r.summaries, r.categories, r.tags)
    \/ \E item \in Items : fetchDataRejected(item)
    \/ DashboardAsync
    \/ SummaryDetailAsync
    \/ ArticlesAsync

NextMount ==
    \/ \E id \in DetailIds, confirmed \in BOOLEAN : handleDelete(id, confirmed)
    \/ \E id \in DetailIds : handleToggle(id)
    \/ \E id \in DetailIds, confirmed \in BOOLEAN : deleteSummary(id, confirmed)
    \/ ArticlesUser
    \/ Settle

SpecMount == Init /\ [][NextMount]_vars /\ WF_vars(Settle)

\* Leaving a view and coming back: the Summaries view with its selection,
\* selectors and compile form, the single-URL page with its form, and the
\* article page a successful compile leads to.
NextNav ==
    \/ \E target \in {Route("summaries", 0), Route("singleUrl", 0)} :
          Navigate(target)
    \/ \E id \in DetailIds : toggleSelection(id)
    \/ \E c \in {"llms"} : SelectCategory(c)
    \/ \E t \in {"gpt"} : SelectTag(t)
    \/ \E v \in {"category"} : SetView(v)
    \/ OpenCompileDialog
    \/ \E v \in TitleInputs : ChangeArticleField("title", v)
    \/ \E v \in ThemeInputs : ChangeArticleField("theme", v)
    \/ handleCompileArticle
    \/ \E item \in Items, id \in DetailIds :
          handleCompileArticleResolved(item, id)
    \/ \E item \in Items : handleCompileArticleRejected(item)
    \/ \E item \in Items : fetchDataPartial(item)
    \/ \E item \in Items :
          fetchDataResolved(item, <<Summary1, Summary2>>, <<"llms", "Vision">>,
                            <<"gpt">>)
    \/ \E item \in Items : fetchDataRejected(item)
    \/ \E item \in Items : fetchArticleResolved(item)
    \/ \E item \in Items : fetchArticleRejected(item)
    \/ \E v \in PageUrlInputs : ChangeUrl(v)
    \/ handleSubmitUrl
    \/ \E item \in Items, data \in ResultAnswers :
          handleSubmitUrlResolved(item, data)
    \/ \E item \in Items : handleSubmitUrlRejected(item)

SpecNav == InitAt(Route("summaries", 0)) /\ [][NextNav]_vars

\* The detail views: the application loaded at the route of a summary or of
\* an article, the user moving from one detail route to another (the same
\* view with another id keeps the instance and runs its [id] effect again,
\* the other view unmounts it), and the settling of the item requests.
NextDetail ==
    \/ \E view \in {"summaryDetail", "articleDetail"}, id \in DetailIds :
          Navigate(Route(view, id))
    \/ SummaryDetailAsync
    \/ \E item \in Items : fetchArticleResolved(item)
    \/ \E item \in Items : fetchArticleRejected(item)

SpecDetail ==
    /\ \E view \in {"summaryDetail", "articleDetail"}, id \in DetailIds :
          InitAt(Route(view, id))
    /\ [][NextDetail]_vars

\* Editing a source as it is: the Sources view whose list is one source of
\* any of the shapes below (tags of one or several words, in several
\* orders, and tags that hold a comma, white space at an end, or nothing),
\* the Edit button, the dialog's submit and close buttons, and the settling
\* of the requests; no field of the form is typed in.
EditSources ==
    {[id |-> 1, name |-> "Blog", url |-> "https://blog.example",
      category |-> c, tags |-> t, active |-> TRUE] :
        c \in {NullV, "llms"},
        t \in {<<>>,
               << <<"a">> >>,
               << <<"a">>, <<"b">> >>,
               << <<"b">>, <<"a">>, <<"b">> >>,
               << <<"a", Space, "b">>, <<"a">> >>,
               << <<"a", Comma, "b">> >>,
               << <<Space, "a">>, <<"b">> >>,
               << <<"a">>, <<>> >>}}

NextEdit ==
    \/ \E source \in EditSources : handleEdit(source)
    \/ CloseSourceDialog
    \/ handleSubmit
    \/ \E item \in Items : handleSubmitResolved(item)
    \/ \E item \in Items : handleSubmitRejected(item)
    \/ \E item \in Items, source \in EditSources :
          fetchSourcesResolved(item, <<source>>)
    \/ \E item \in Items : fetchSourcesRejected(item)

SpecEdit == InitAt(Route("sources", 0)) /\ [][NextEdit]_vars

\* Requests under navigation: the application loaded at any route, the user
\* moving to any route at any moment, every handler that sends a request
\* (the forms filled in with one value a field, the selectors left alone),
\* and the settling of the requests.
NextRoam ==
    \/ \E target \in Routes : Navigate(target)
    \/ ClickAddSource
    \/ \E source \in {Source1, Source2} : handleEdit(source)
    \/ CloseSourceDialog
    \/ \E v \in NameInputs : ChangeSourceField("name", v)
    \/ \E v \in UrlInputs : ChangeSourceField("url", v)
    \/ handleSubmit
    \/ \E item \in Items : handleSubmitResolved(item)
    \/ \E item \in Items : handleSubmitRejected(item)
    \/ \E id \in DetailIds : ViewSummary(id)
    \/ \E id \in DetailIds : toggleSelection(id)
    \/ OpenCompileDialog
    \/ CloseCompileDialog
    \/ \E v \in TitleInputs : ChangeArticleField("title", v)
    \/ \E v \in ThemeInputs : ChangeArticleField("theme", v)
    \/ handleCompileArticle
    \/ \E item \in Items, id \in DetailIds :
          handleCompileArticleResolved(item, id)
    \/ \E item \in Items : handleCompileArticleRejected(item)
    \/ SingleUrlUser
    \/ SingleUrlAsync
    \/ NextMount

SpecRoam == Init /\ [][NextRoam]_vars

(***************************************************************************)
(* Properties.                                                             *)
(***************************************************************************)
IsErrorToast(toasts) == Len(toasts) = 1 /\ toasts[1].level = "error"

\* The outstanding invocations of `kind` of the mounted instance, and the
\* step that ends one of them (the settling of a request of an instance
\* since unmounted runs setters that do nothing).
MountedInvocations(kind, bag) ==
    LET S == {i \in BagToSet(bag) : i.kind = kind /\ i.live}
    IN  BagCardinality([i \in S |-> CopiesIn(i, bag)])
OfMounted(kind) ==
    MountedInvocations(kind, pending') < MountedInvocations(kind, pending)

SourceMutationHandlers ==
    {"Sources.handleSubmit", "Sources.handleDelete", "Sources.handleToggle"}

\* C1: in the Sources view, the step in which a create, update, delete or
\* toggle request is rejected shows one error toast, sends no request (no
\* refetch) and leaves sources, dialogOpen, formData and editingSource as
\* they were; the step that sent the request changed none of them either.
C1_RejectedSourceMutationKeepsState ==
    [][(out'.handler \in SourceMutationHandlers
        /\ out'.phase \in {"call", "rejected"})
       => /\ Sources' = Sources
          /\ out'.phase = "rejected"
                => IsErrorToast(out'.toasts) /\ out'.sent = <<>>]_vars

C1_Witness ==
    /\ out.handler = "Sources.handleSubmit" /\ out.phase = "rejected"
    /\ Sources.dialogOpen
    /\ Sources.editingSource /= None
    /\ Sources.sources /= <<>>

\* C2 as stated: after a rejected POST /api/process-url of the mounted
\* single-URL view, the displayed result is the one that was displayed when
\* the submission started.
C2_ResultKeptAfterFailure ==
    [][(/\ out'.handler = "SingleUrl.handleSubmit" /\ out'.phase = "rejected"
        /\ OfMounted("processUrl"))
        => SingleUrl'.result = resultAtSubmit']_vars

\* C2, amended: a rejected POST /api/process-url shows an error toast, and in
\* the mounted single-URL view loading is false again and no result is
\* displayed, whatever was displayed when the submission started
\* (handleSubmit cleared it).
C2_ResultClearedAfterFailure ==
    [][(out'.handler = "SingleUrl.handleSubmit" /\ out'.phase = "rejected")
        => /\ IsErrorToast(out'.toasts)
           /\ OfMounted("processUrl")
                => /\ SingleUrl'.result = None
                   /\ ~SingleUrl'.loading
                   /\ resultAtSubmit' = resultAtSubmit
                   /\ SingleUrl' = [SingleUrl EXCEPT !.loading = FALSE]]_vars

C2_Witness ==
    /\ out.handler = "SingleUrl.handleSubmit" /\ out.phase = "rejected"
    /\ route.view = "singleUrl"
    /\ resultAtSubmit /= None
    /\ SingleUrl.result = None /\ ~SingleUrl.loading
    /\ pending = EmptyBag

IsCompilePost(r) == r.method = "POST" /\ r.path = "/articles"

\* C3: no POST /api/articles carries fewer than 2 summary ids, and a submit
\* of the compile form with fewer than 2 ids selected sends nothing, shows
\* an error toast and leaves the Summaries state (selection, title, theme,
\* dialog flag, compiling flag) unchanged.
C3_CompileNeedsTwo ==
    /\ [](\A i \in 1..Len(out.sent) :
            IsCompilePost(out.sent[i])
                => Len(out.sent[i].body[1].summary_ids) >= 2)
    /\ [][(out'.handler = "Summaries.handleCompileArticle"
           /\ out'.phase \in {"call", "refused"}
           /\ Len(Summaries.selectedForArticle) < 2)
          => /\ out'.sent = <<>>
             /\ IsErrorToast(out'.toasts)
             /\ Summaries' = Summaries
             /\ pending' = pending]_vars

C3_Witness ==
    /\ out.handler = "Summaries.handleCompileArticle" /\ out.phase = "refused"
    /\ Len(Summaries.selectedForArticle) = 1
    /\ Summaries.showCompileDialog

\* The invocations of `bag` that have not run their catch block.
Unfailed(bag) ==
    LET S == {i \in BagToSet(bag) : ~i.failed}
    IN  BagCardinality([i \in S |-> CopiesIn(i, bag)])

\* The requests still in flight of the invocations of `bag` that have run
\* their catch block.
FailedWaiting(bag) ==
    LET S == {i \in BagToSet(bag) : i.failed}
    IN  BagCardinality([i \in S |-> CopiesIn(i, bag) * i.waiting])

\* C4: a step that handles a rejection shows exactly one error toast, sends
\* no request and ends its invocation (no retry); and the settling of a
\* further request of an invocation that has already failed shows nothing
\* and sends nothing, so an invocation shows one error toast at most.
C4_OneToastNoRetry ==
    [][/\ out'.phase = "rejected"
            => /\ IsErrorToast(out'.toasts)
               /\ out'.sent = <<>>
               /\ out'.nav = NoNav
               /\ Unfailed(pending') = Unfailed(pending) - 1
               /\ BagCardinality(pending') <= BagCardinality(pending)
       /\ FailedWaiting(pending') < FailedWaiting(pending)
            => out'.toasts = <<>> /\ out'.sent = <<>>
       /\ (\E i \in 1..Len(out'.toasts) : out'.toasts[i].level = "error")
            => out'.phase \in {"rejected", "refused"}]_vars

C4_Witness ==
    /\ out.handler = "Summaries.fetchData" /\ out.phase = "partial"
    /\ \E item \in Items : item.failed /\ item.waiting = 1

\* The summaries the selectors ask for.
Matches(s) ==
    /\ Summaries.selectedCategory = "all"
          \/ s.category = Summaries.selectedCategory
    /\ Summaries.selectedTag = "all" \/ Includes(s.tags, Summaries.selectedTag)

Occurrences(list, x) == Cardinality({i \in 1..Len(list) : list[i] = x})

\* C5: the displayed summaries are exactly the fetched summaries that match
\* the selected category and tag: each matching one once, no other one.
C5_FilterExact ==
    /\ \A i \in 1..Len(Summaries.summaries) :
          Occurrences(Summaries.filteredSummaries, Summaries.summaries[i])
            = IF Matches(Summaries.summaries[i]) THEN 1 ELSE 0
    /\ \A j \in 1..Len(Summaries.filteredSummaries) :
          Includes(Summaries.summaries, Summaries.filteredSummaries[j])

C5_Witness ==
    /\ Summaries.selectedCategory = "llms"
    /\ Summaries.selectedTag = "gpt"
    /\ Len(Summaries.summaries) = 3
    /\ Len(Summaries.filteredSummaries) = 2

\* C6: in the chronological view the displayed summaries go from the most
\* recent to the oldest.
C6_ChronologicalOrder ==
    Summaries.view = "chronological"
        => \A i, j \in 1..Len(Summaries.filteredSummaries) :
              i < j => DateValue(Summaries.filteredSummaries[i].created_at)
                        >= DateValue(Summaries.filteredSummaries[j].created_at)

C6_Witness ==
    /\ Summaries.view = "chronological"
    /\ Summaries.selectedTag = "gpt"
    /\ Len(Summaries.filteredSummaries) = 3
    /\ Summaries.filteredSummaries[1].id = 3
    /\ Summaries.filteredSummaries[1].created_at
          /= Summaries.filteredSummaries[3].created_at

\* C7 as stated: in the category view the displayed summaries go by category
\* (a missing category counting as the empty string) and, among equal
\* categories under that convention, from the most recent to the oldest.
C7_CategoryThenRecency ==
    Summaries.view = "category"
        => \A i, j \in 1..Len(Summaries.filteredSummaries) :
              i < j =>
                LET a == Summaries.filteredSummaries[i]
                    b == Summaries.filteredSummaries[j]
                IN  /\ LocaleCompare(OrEmpty(a.category), OrEmpty(b.category))
                          <= 0
                    /\ OrEmpty(a.category) = OrEmpty(b.category)
                          => DateValue(a.created_at) >= DateValue(b.created_at)

IsSourceSubmit == out.handler = "Sources.handleSubmit" /\ out.phase = "call"

\* C8: a submit of the source form sends one request: PUT /api/sources/{id}
\* with the id of the source whose Edit button last opened the dialog, or
\* POST /api/sources when the Add button last opened it.
C8_SubmitFollowsLastOpening ==
    IsSourceSubmit
        => /\ Len(out.sent) = 1
           /\ openedWith.by \in {"add", "edit"}
           /\ openedWith.by = "edit"
                => /\ out.sent[1].method = "PUT"
                   /\ out.sent[1].path = "/sources/{id}"
                   /\ out.sent[1].id = openedWith.id
           /\ openedWith.by = "add"
                => /\ out.sent[1].method = "POST"
                   /\ out.sent[1].path = "/sources"

C8_Witness ==
    /\ IsSourceSubmit
    /\ out.sent[1].method = "POST"
    /\ \E item \in Items : item.kind = "saveSource" /\ item.param = 1

IsCompileCall ==
    out.handler = "Summaries.handleCompileArticle" /\ out.phase = "call"

\* C9: the compile request carries the title and theme of the form and, as
\* summary_ids, the ids checked and not unchecked since the last clear, in
\* the order they were checked, displayed or not.
C9_CompilePayload ==
    IsCompileCall
        => /\ Len(out.sent) = 1
           /\ IsCompilePost(out.sent[1])
           /\ out.sent[1].body[1].title = Summaries.articleFormData.title
           /\ out.sent[1].body[1].theme = Summaries.articleFormData.theme
           /\ out.sent[1].body[1].summary_ids = checkedOrder

C9_Witness ==
    /\ IsCompileCall
    /\ out.sent[1].body[1].summary_ids = <<2, 1>>
    /\ ~Displayed(1)
    /\ Summaries.view = "category"

\* C10: the step in which a mutation succeeds sends the GET(s) of the view's
\* list and suspends the refetch; and the list a view holds changes, as long
\* as the view stays mounted, only in the step in which a GET of that list is
\* answered.
C10_RefetchAfterMutation ==
    /\ [](out.phase = "resolved" =>
            /\ out.handler \in SourceMutationHandlers
                  => /\ out.sent = <<Get("/sources")>>
                     /\ \E item \in Items : item.kind = "fetchSources"
            /\ out.handler = "Summaries.deleteSummary"
                  => /\ out.sent = <<Get("/summaries"), Get("/categories"),
                                     Get("/tags")>>
                     /\ \E item \in Items :
                            item.kind = "fetchData" /\ item.waiting = 3
            /\ out.handler = "Articles.deleteArticle"
                  => /\ out.sent = <<Get("/articles")>>
                     /\ \E item \in Items : item.kind = "fetchArticles")
    /\ [][route'.view = route.view
            => /\ Sources'.sources /= Sources.sources
                    => out'.handler = "Sources.fetchSources"
                       /\ out'.phase = "resolved"
               /\ Summaries'.summaries /= Summaries.summaries
                    => out'.handler = "Summaries.fetchData"
                       /\ out'.phase = "resolved"
               /\ Articles'.articles /= Articles.articles
                    => out'.handler = "Articles.fetchData"
                       /\ out'.phase = "resolved"]_vars

C10_Witness ==
    /\ out.handler = "Summaries.deleteSummary" /\ out.phase = "resolved"
    /\ Summaries.summaries /= <<>>
    /\ \E item \in Items : item.kind = "fetchData" /\ item.live

\* C11: every displayed summary card carries exactly one of the auto and
\* manual badges: the manual one exactly when source_id is null, the auto one
\* otherwise.
C11_OneOriginBadge ==
    \A i \in 1..Len(Summaries.filteredSummaries) :
        LET summary == Summaries.filteredSummaries[i]
            badges  == CardBadges(summary)
        IN  /\ Occurrences(badges, "auto-badge")
                  + Occurrences(badges, "manual-badge") = 1
            /\ Includes(badges, "manual-badge") <=> summary.source_id = None

C11_Witness ==
    /\ SummariesPage
    /\ \E i, j \in 1..Len(Summaries.filteredSummaries) :
          /\ Summaries.filteredSummaries[i].source_id = None
          /\ Summaries.filteredSummaries[j].source_id /= None
          /\ Summaries.filteredSummaries[j].is_new

\* What a round of fetchData loads, in the Summaries view and the Dashboard.
SummariesLoaded ==
    <<Summaries.summaries, Summaries.categories, Summaries.tags>>
DashboardLoaded == <<Dashboard.stats, Dashboard.recentSummaries>>

\* C12: the summaries, categories and tags the Summaries view holds are those
\* of one fetch round (or the initial empty ones), likewise the stats and
\* recent summaries of the Dashboard; a round whose three GETs succeed
\* replaces them all, and the steps of a round one of whose GETs is rejected
\* change none of them.
C12_AllOrNone ==
    /\ [](\/ SummariesLoaded = <<InitSummaries.summaries,
                                 InitSummaries.categories, InitSummaries.tags>>
          \/ \E r \in FetchRounds :
                SummariesLoaded = <<r.summaries, r.categories, r.tags>>)
    /\ [](\/ DashboardLoaded = <<None, <<>> >>
          \/ \E r \in FetchRounds :
                DashboardLoaded
                    = <<Some(r.stats), Slice(r.summaries, RecentLimit)>>)
    /\ [][/\ out'.phase \in {"rejected", "partial"}
               => /\ SummariesLoaded' = SummariesLoaded
                  /\ DashboardLoaded' = DashboardLoaded
          /\ (out'.handler = "Summaries.fetchData" /\ out'.phase = "resolved")
               => \E r \in FetchRounds :
                     SummariesLoaded' = <<r.summaries, r.categories, r.tags>>
          /\ (out'.handler = "Dashboard.fetchData" /\ out'.phase = "resolved")
               => Dashboard'.stats /= None]_vars

C12_Witness ==
    /\ out.handler = "Summaries.fetchData" /\ out.phase = "rejected"
    /\ Summaries.summaries = <<Summary1, Summary2>>
    /\ \E item \in Items : item.kind = "fetchData" /\ item.failed

\* C13: the step in which POST /api/articles is rejected shows one error
\* toast, navigates nowhere, sends nothing and changes nothing of the
\* Summaries state but the compiling flag of the instance that sent it, which
\* is false afterwards (nothing at all once that instance is unmounted); the
\* step that sent the request changed nothing but that flag either.
C13_RejectedCompileKeepsForm ==
    [][/\ (out'.handler = "Summaries.handleCompileArticle"
           /\ out'.phase = "rejected")
            => /\ IsErrorToast(out'.toasts)
               /\ out'.nav = NoNav /\ route' = route
               /\ out'.sent = <<>>
               /\ IF OfMounted("compileArticle")
                  THEN /\ Summaries.compilingArticle
                       /\ Summaries' =
                             [Summaries EXCEPT !.compilingArticle = FALSE]
                  ELSE Summaries' = Summaries
       /\ (out'.handler = "Summaries.handleCompileArticle"
           /\ out'.phase = "call")
            => Summaries' = [Summaries EXCEPT !.compilingArticle = TRUE]]_vars

C13_Witness ==
    /\ out.handler = "Summaries.handleCompileArticle" /\ out.phase = "rejected"
    /\ Summaries.showCompileDialog
    /\ Len(Summaries.selectedForArticle) = 2
    /\ Summaries.articleFormData = [title |-> "Title", theme |-> "Theme"]
    /\ ~Summaries.compilingArticle

\* The step is the mounted view receiving the successful answer to a GET of
\* its list (an answer to a request of an instance since unmounted reaches
\* no view).
Arrived(handler, kind) ==
    /\ out'.handler = handler
    /\ out'.received /= None
    /\ route'.view = route.view
    /\ OfMounted(kind)

\* C14: the successful answers to the GETs of a list are applied in arrival
\* order, whatever the order the requests were issued in: the list of the
\* mounted view is the payload of the answer it has just received, also when
\* a request issued later was answered before, and no other step changes the
\* list of a view that stays mounted; so the list shown when every request
\* has settled is the payload that arrived last.
C14_LastArrivalShown ==
    [][/\ Arrived("Sources.fetchSources", "fetchSources")
            => Sources'.sources = out'.received[1].data
       /\ Arrived("Summaries.fetchData", "fetchData")
            => Summaries'.summaries = out'.received[1].data
       /\ Arrived("Articles.fetchData", "fetchArticles")
            => Articles'.articles = out'.received[1].data
       /\ route'.view = route.view
            => /\ Sources'.sources /= Sources.sources
                    => Arrived("Sources.fetchSources", "fetchSources")
               /\ Summaries'.summaries /= Summaries.summaries
                    => Arrived("Summaries.fetchData", "fetchData")
               /\ Articles'.articles /= Articles.articles
                    => Arrived("Articles.fetchData", "fetchArticles")]_vars

C14_Witness ==
    /\ out.handler = "Sources.fetchSources" /\ out.phase = "resolved"
    /\ out.received /= None
    /\ out.received[1].late
    /\ Sources.sources = <<Source1Off, Source2>>
    /\ pending = EmptyBag

\* The loading flag of the mounted view (the single-URL view fetches nothing
\* on mount: its loading flag is that of a submission).
ViewLoading ==
    CASE route.view = "dashboard" -> Dashboard.loading
      [] route.view = "sources" -> Sources.loading
      [] route.view = "summaries" -> Summaries.loading
      [] route.view = "summaryDetail" -> SummaryDetail.loading
      [] route.view = "articles" -> Articles.loading
      [] route.view = "articleDetail" -> ArticleDetail.loading
      [] OTHER -> FALSE

\* C15: a list or detail view is mounted with loading = true and its GET(s)
\* sent; while it is loading no GET is sent again; provided the requests
\* settle, loading becomes false, whether they succeed or fail; and once
\* false, loading stays false as long as the view is mounted, refetches
\* included.
C15_LoadingFalls ==
    /\ []((out.handler = "App.mount" /\ route.view /= "singleUrl")
            => /\ ViewLoading
               /\ out.sent = MountRequests(route)
               /\ pending = SetToBag(MountInvocations(route)))
    /\ [][/\ ViewLoading
               => \A i \in 1..Len(out'.sent) : out'.sent[i].method /= "GET"
          /\ (~ViewLoading /\ route' = route) => ~ViewLoading']_vars
    /\ (ViewLoading ~> ~ViewLoading)

C15_Witness ==
    /\ out.handler = "Sources.fetchSources" /\ out.phase = "rejected"
    /\ Sources.sources = <<>>
    /\ ~Sources.loading
    /\ pending = EmptyBag

\* C16 as stated: the payload of a source submit carries the name and url of
\* the form, null as category for an empty category field and the field
\* otherwise, and as tags the empty list for an empty tags field and
\* otherwise the entries of the field between commas, without surrounding
\* whitespace and none of them empty.
C16_SourcePayload ==
    IsSourceSubmit =>
        LET payload == out.sent[1].body[1]
            form    == Sources.formData
        IN  /\ payload.name = form.name
            /\ payload.url = form.url
            /\ payload.category
                  = IF form.category = "" THEN NullV ELSE form.category
            /\ form.tags = <<>> => payload.tags = <<>>
            /\ \A i \in 1..Len(payload.tags) :
                  /\ payload.tags[i] /= <<>>
                  /\ ~Includes(payload.tags[i], Comma)
                  /\ Head(payload.tags[i]) /= Space
                  /\ payload.tags[i][Len(payload.tags[i])] /= Space

\* What a freshly mounted Summaries view is and has done.
FreshSummaries ==
    /\ Summaries = InitSummaries
    /\ checkedOrder = <<>>
    /\ out.sent = <<Get("/summaries"), Get("/categories"), Get("/tags")>>
    /\ \E item \in Items :
          /\ item = Invocation("fetchData", 0, 3)
          /\ CopiesIn(item, pending) = 1

\* C17: whenever the Summaries view is mounted, at load or on coming back
\* from another view, its state is the initial one (empty selection, both
\* selectors on "all", chronological view, empty title and theme, nothing
\* loaded) and it has sent one GET of summaries, categories and tags.
C17_FreshOnMount ==
    /\ []((out.handler = "App.mount" /\ InSummaries) => FreshSummaries)
    /\ [][(route'.view = "summaries" /\ route.view /= "summaries")
            => FreshSummaries']_vars

C17_Witness ==
    /\ out.handler = "Navigation.navigate"
    /\ FreshSummaries
    /\ \E item \in Items : item.kind = "compileArticle" /\ ~item.live

\* The requests of the given kind the mounted instance is waiting for.
Outstanding(kind) ==
    LET S == {i \in Items : i.kind = kind /\ i.live}
    IN  BagCardinality([i \in S |-> CopiesIn(i, pending)])

\* The requests of the given kind that have not settled, whichever instance
\* sent them.
InFlight(kind) ==
    LET S == {i \in Items : i.kind = kind}
    IN  BagCardinality([i \in S |-> CopiesIn(i, pending)])

\* C18 as stated: at any time in the Summaries view at most one POST
\* /api/articles is outstanding, and at any time in the single-URL view at
\* most one POST /api/process-url.
C18_AtMostOneInFlight ==
    /\ InSummaries => InFlight("compileArticle") <= 1
    /\ InSingleUrl => InFlight("processUrl") <= 1

\* C18, amended: a mounted instance of the Summaries view has at most one
\* POST /api/articles of its own outstanding, and one of the single-URL view
\* at most one POST /api/process-url, its submit control being disabled
\* (compilingArticle, loading) exactly while that request is outstanding;
\* the request of an instance the user has left stays outstanding beside it.
C18_SingleFlight ==
    /\ Outstanding("compileArticle") <= 1
    /\ Outstanding("processUrl") <= 1
    /\ InSummaries
          => (Summaries.compilingArticle <=> Outstanding("compileArticle") = 1)
    /\ InSingleUrl => (SingleUrl.loading <=> Outstanding("processUrl") = 1)

C18_Witness ==
    /\ InSingleUrl
    /\ SingleUrl.loading
    /\ out.handler = "SingleUrl.handleSubmit" /\ out.phase = "call"
    /\ \E item \in Items : item.kind = "processUrl" /\ ~item.live

\* The ids of the summaries the Summaries view holds.
HeldIds == {Summaries.summaries[i].id : i \in 1..Len(Summaries.summaries)}

\* C19 as stated: every selected id is the id of a summary the view holds,
\* and so is every id of the summary_ids a compile request carries.
C19_SelectionHeld ==
    /\ \A i \in 1..Len(Summaries.selectedForArticle) :
          Summaries.selectedForArticle[i] \in HeldIds
    /\ IsCompileCall
          => \A i \in 1..Len(out.sent[1].body[1].summary_ids) :
                out.sent[1].body[1].summary_ids[i] \in HeldIds

\* What the source dialog shows.
DialogState == <<Sources.dialogOpen, Sources.formData, Sources.editingSource>>

\* C20 as stated: while the source dialog is open, the success of a save
\* submitted before the dialog was last opened (none has been submitted
\* since) leaves the dialog open, its fields and editingSource as they are.
C20_LateSaveKeepsDialog ==
    [][(/\ out'.handler = "Sources.handleSubmit" /\ out'.phase = "resolved"
        /\ InSources
        /\ Sources.dialogOpen
        /\ ~openedWith.submitted)
       => DialogState' = DialogState]_vars

\* C21: in a detail view, once no request is outstanding, the view does not
\* display an item other than the one of the current route id: it displays
\* that item or the not-found message.
C21_DisplayedIsRouted ==
    pending = EmptyBag =>
        /\ route.view = "summaryDetail" =>
              \/ SummaryDetail.summary = None
              \/ SummaryDetail.summary[1].id = route.id
        /\ route.view = "articleDetail" =>
              \/ ArticleDetail.article = None
              \/ ArticleDetail.article[1].id = route.id

\* The mark-read requests among the requests of the last step.
IsMarkRead(r) == r.method = "POST" /\ r.path = "/summaries/{id}/mark-read"
MarkReads == {i \in 1..Len(out.sent) : IsMarkRead(out.sent[i])}

\* C22: a step sends POST /api/summaries/{id}/mark-read if and only if it is
\* fetchSummary receiving the successful answer to its GET with is_new true;
\* it then sends exactly one, for the id of the summary received.  So no
\* mark-read is sent before the answer, none for a summary that is not new,
\* none after a failed GET, and none twice for one fetch.
C22_MarkReadIffNew ==
    /\ MarkReads /= {} <=>
          /\ out.handler = "SummaryDetail.fetchSummary"
          /\ out.phase = "resolved"
          /\ out.received /= None
          /\ out.received[1].data.is_new
    /\ MarkReads /= {} =>
          /\ Len(out.sent) = 1
          /\ out.sent[1].id = out.received[1].data.id

C22_Witness ==
    /\ out.handler = "SummaryDetail.fetchSummary" /\ out.phase = "resolved"
    /\ out.received[1].data.is_new
    /\ MarkReads = {1}
    /\ out.sent[1].id = 2
    /\ route = Route("summaryDetail", 2)
    /\ SummaryDetail.summary = Some(SummaryItem(2, TRUE))

\* The DELETE requests among the requests of the last step, and the path
\* each delete handler uses.
Deletes == {i \in 1..Len(out.sent) : out.sent[i].method = "DELETE"}
DeletePath ==
    CASE out.handler = "Sources.handleDelete" -> "/sources/{id}"
      [] out.handler = "Summaries.deleteSummary" -> "/summaries/{id}"
      [] out.handler = "Articles.deleteArticle" -> "/articles/{id}"
      [] OTHER -> "none"

\* C23: a step sends a DELETE only when it showed the confirmation prompt
\* and the user accepted it, and then one DELETE, for the item the prompt
\* was about and on the path of the handler's collection; a step whose prompt
\* was declined sends nothing, shows no toast, does not navigate and leaves
\* every component's state and every suspended invocation as they were.
C23_DeleteNeedsConfirmation ==
    /\ [](Deletes /= {} =>
            /\ out.prompt /= None
            /\ out.prompt[1].accepted
            /\ Len(out.sent) = 1
            /\ out.sent[1].id = out.prompt[1].id
            /\ out.sent[1].path = DeletePath)
    /\ [][(out'.prompt /= None /\ ~out'.prompt[1].accepted)
            => /\ out'.sent = <<>>
               /\ out'.toasts = <<>>
               /\ out'.nav = NoNav
               /\ route' = route
               /\ views' = views
               /\ pending' = pending]_vars

\* The prompt about source 2 was declined while the DELETE of a source,
\* confirmed before, is outstanding.
C23_Witness ==
    /\ out.handler = "Sources.handleDelete"
    /\ out.prompt = Some([id |-> 2, accepted |-> FALSE])
    /\ \E item \in Items : item.kind = "deleteSource" /\ item.live

\* The last step settled a compile request.
CompileSettled(phase) ==
    out.handler = "Summaries.handleCompileArticle" /\ out.phase = phase

\* C24 as stated: after a compile request succeeded the selection and the
\* title and theme fields are empty, the dialog is closed and the client has
\* navigated to the article whose id the response gave; after a success or
\* a failure the compiling flag is false.
C24_CompileOutcome ==
    /\ CompileSettled("resolved") =>
          /\ Summaries.selectedForArticle = <<>>
          /\ Summaries.articleFormData = EmptyArticleForm
          /\ ~Summaries.showCompileDialog
          /\ out.nav = <<Route("articleDetail", out.received[1].data.id)>>
          /\ route = Route("articleDetail", out.received[1].data.id)
          /\ ~Summaries.compilingArticle
    /\ CompileSettled("rejected") => ~Summaries.compilingArticle

\* C24 for the instance that sent the request: the success leaves the
\* selection and the fields empty, the dialog closed and the client at the
\* article of the id received; the failure of a request whose instance is
\* still mounted leaves that instance's compiling flag false.  (The failure
\* of a request that outlived its instance runs setters that do nothing: a
\* later instance keeps its own flag.)
C24_CompileOutcomeOfInstance ==
    /\ [](CompileSettled("resolved") =>
            /\ Summaries.selectedForArticle = <<>>
            /\ Summaries.articleFormData = EmptyArticleForm
            /\ ~Summaries.showCompileDialog
            /\ out.nav = <<Route("articleDetail", out.received[1].data.id)>>
            /\ route = Route("articleDetail", out.received[1].data.id)
            /\ ~Summaries.compilingArticle)
    /\ [][(/\ CompileSettled("rejected")'
           /\ \E item \in Items :
                 /\ item.kind = "compileArticle" /\ item.live
                 /\ pending' = Take(item))
            => ~Summaries'.compilingArticle]_vars

C24_Witness ==
    /\ CompileSettled("resolved")
    /\ out.received = Some([data |-> [id |-> 2], late |-> FALSE])
    /\ route = Route("articleDetail", 2)
    /\ Summaries = InitSummaries
    /\ \E item \in Items : item.kind = "fetchArticle" /\ item.param = 2

\* The ids of a selection, and what toggling `id` makes of the selection
\* of the current state.
Ids(selection) == {selection[i] : i \in 1..Len(selection)}
Selection == Summaries.selectedForArticle
Toggled(id) == toggleSummarySelection(Selection, id)

\* C25: the article selection never holds an id twice; every change of the
\* selection empties it or is the toggle of one id; toggling an absent id
\* gives the selection with the id added at the end, toggling a present id
\* gives the selection without it (the others in their order), and toggling
\* an id twice gives back the same set of ids.
C25_SelectionIsASet ==
    /\ [](Cardinality(Ids(Selection)) = Len(Selection))
    /\ [](\A id \in DetailIds :
            LET sel == Selection
                t   == Toggled(id)
            IN  /\ id \notin Ids(sel) =>
                      /\ Len(t) = Len(sel) + 1
                      /\ SubSeq(t, 1, Len(sel)) = sel
                      /\ t[Len(t)] = id
                /\ id \in Ids(sel) =>
                      /\ Ids(t) = Ids(sel) \ {id}
                      /\ Len(t) = Len(sel) - 1
                      /\ \A i, j \in 1..Len(t) :
                            i < j =>
                              \E k, l \in 1..Len(sel) :
                                  k < l /\ sel[k] = t[i] /\ sel[l] = t[j]
                /\ Ids(toggleSummarySelection(t, id)) = Ids(sel))
    /\ [][Selection' /= Selection
            => \/ Selection' = <<>>
               \/ \E id \in DetailIds : Selection' = Toggled(id)]_vars

\* Summary 2 was checked, then summary 1, a compile attempt is in flight.
C25_Witness ==
    /\ Summaries.selectedForArticle = <<2, 1>>
    /\ checkedOrder = <<2, 1>>
    /\ Summaries.compilingArticle

\* Tags the round trip is claimed for: each non-empty, without a comma and
\* without white space at either end.
RoundTripTags(tags) ==
    \A i \in 1..Len(tags) :
        /\ tags[i] /= <<>>
        /\ ~Includes(tags[i], Comma)
        /\ Head(tags[i]) /= Space
        /\ tags[i][Len(tags[i])] /= Space

\* C26: submitting the edit dialog of a source as handleEdit filled it, for
\* a source whose tags are each non-empty, without a comma and without white
\* space at an end, sends a PUT for that source whose name, url and tags are
\* the source's name, url and tags, the tags in the same order.
C26_EditRoundTrip ==
    (/\ IsSourceSubmit
     /\ Sources.editingSource /= None
     /\ RoundTripTags(Sources.editingSource[1].tags))
        => LET source  == Sources.editingSource[1]
               request == out.sent[1]
           IN  /\ request.method = "PUT"
               /\ request.id = source.id
               /\ request.body[1].name = source.name
               /\ request.body[1].url = source.url
               /\ request.body[1].tags = source.tags

C26_Witness ==
    /\ IsSourceSubmit
    /\ Sources.editingSource /= None
    /\ Sources.editingSource[1].tags = << <<"a", Space, "b">>, <<"a">> >>
    /\ out.sent[1].method = "PUT"
    /\ out.sent[1].body[1].tags = << <<"a", Space, "b">>, <<"a">> >>

=========================================================================
